---- MODULE Spec2Model ----
(***************************************************************************)
(* The sticker layout engine of the landing page                           *)
(* (src/client/src/App.jsx, the layout effect and its generateLayout).     *)
(*                                                                         *)
(* JavaScript numbers are modelled as exact rationals [n, d] in lowest     *)
(* terms (d > 0); the viewport and the measured rectangles are integers   *)
(* of pixels.  Math.random() is a pseudo-random sequence: the generator's  *)
(* state is drawn nondeterministically at the start and every call        *)
(* returns rng/RandDen in [0,1) and advances the state.                    *)
(***************************************************************************)
EXTENDS Integers, Sequences, FiniteSets, TLC

VARIABLES
  innerWidth,        \* window.innerWidth (px)
  innerHeight,       \* window.innerHeight (px)
  isMobileView,      \* React state isMobileView as captured by the effect
  dom,               \* the measured DOM: main's rectangle, protected elements
  stickers,          \* React state stickers: the catalog (sequence of rows)
  generatedStickers, \* React state generatedStickers
  rng,               \* state of the Math.random() generator
  pc,                \* "mount" | "loop" | "done": position in generateLayout
  totalStickers,     \* locals of generateLayout, named as in the source
  baseScale,
  exclusionZones,
  safeZone,
  gridRows,
  gridCols,
  gridCells,
  cellIndex,
  i,
  attempts,
  position,
  newStickers,
  cand,              \* the candidate of the last loop iteration: cell, x, y, stickerScale
  tested,            \* history: the cellIndex values tested so far, in order
  placedCell,        \* history: for each entry of newStickers, the cell it came from
  sampled,           \* history of a rejection-sampling pass: iterations of the
                     \* inner loop in this slot and in the pass, slots dropped
  passed             \* history: the cellIndex values whose test was passed

\* The layout effect of App over the life of the page (App.jsx 106-121,
\* 143-148, 180-399): renders, resize events and the debounce timer.
VARIABLES
  mounted,           \* App is mounted
  loaded,            \* the fetch of /data/links.csv has resolved and set stickers
  rendered,          \* the dependencies [stickers, isMobileView] as of the last render
  effect,            \* the closure of the live layout effect, or None
  timers,            \* the browser's pending timeouts
  resizePending,     \* the window has a new size whose resize event is not yet dispatched
  resizes,           \* number of changes of the window's size
  observedWidth,     \* history: window.innerWidth as last read by a resize event or an effect run
  sinceResize,       \* history: ms since the last width-changing resize event
  lastEvent,         \* history: the last resize event dispatched (at mount: none, the
                     \* width being the one read by the mount effect)
  effects,           \* history: number of runs of the effect past its guard
  lastPass,          \* history: the last layout pass, who ran it and what it read
  resizeListeners,   \* the effect runs whose handleResize is attached to window
  variant            \* the page's source: "App.jsx" or "part_000"

\* One Sticker and its parallax effect (components/Sticker.jsx 4-77).
VARIABLES
  parallaxFactor,       \* the prop parallaxFactor as the parent passes it
  motionX,              \* the motion values x and y of the offset
  motionY,
  stickerPhase,         \* "new" | "mounted" | "unmounted"
  deviceOrientation,    \* what window.DeviceOrientationEvent offers
  run,                  \* the live run of the effect (the one whose cleanup is
                        \* registered), or None
  runsStarted,          \* number of runs of the effect
  mouseListeners,       \* the handleMouseMove listeners attached to window
  orientationListeners, \* the handleOrientation listeners attached, in order
  permissionPending,    \* the runs awaiting requestPermission()
  lastWrite             \* history: who last set x and y, and from what

\* The referral server (src/server.js).
VARIABLES
  env,               \* process.env: which survey URLs are configured
  users,             \* the table users
  tokens,            \* the table tokens
  now,               \* the clock, in minutes
  issued,            \* history: the token rows POST /generate has inserted
  lastRequest        \* history: the last request and the status it was answered with

\* The variables of one layout pass.
passVars == <<dom, rng, pc, totalStickers, baseScale, exclusionZones, safeZone,
              gridRows, gridCols, gridCells, cellIndex, i, attempts, position,
              newStickers, cand, tested, placedCell, sampled,
              passed>>

\* The React state of App and the window.
appVars == <<innerWidth, innerHeight, isMobileView, stickers, generatedStickers>>

\* The variables of the layout effect's life.
effectVars == <<mounted, loaded, rendered, effect, timers, resizePending, resizes,
                observedWidth, sinceResize, lastEvent, effects, lastPass,
                resizeListeners, variant>>

\* The variables of the Sticker.
parallaxVars == <<parallaxFactor, motionX, motionY, stickerPhase, deviceOrientation, run,
                  runsStarted, mouseListeners, orientationListeners,
                  permissionPending, lastWrite>>

\* The variables of the server.
serverVars == <<env, users, tokens, now, issued, lastRequest>>

\* Everything but the page's state and the variables of a layout pass.
beyondLayout == <<effectVars, parallaxVars, serverVars>>

vars == <<appVars, passVars, effectVars, parallaxVars, serverVars>>

(***************************************************************************)
(* Bounds of the model.                                                    *)
(***************************************************************************)
\* Math.random() returns k/RandDen, k in 0..RandDen-1; every k is a seed.
RandDen == 16
\* The catalog has 1..MaxCatalog rows.
MaxCatalog == 3

None == [none |-> TRUE]

(***************************************************************************)
(* Exact rational arithmetic.                                              *)
(***************************************************************************)
Abs(a) == IF a < 0 THEN -a ELSE a

RECURSIVE GCD(_, _)
GCD(a, b) == IF b = 0 THEN a ELSE GCD(b, a % b)

\* The rational n/d (d # 0) in lowest terms with a positive denominator.
R(n, d) ==
  LET g == GCD(Abs(n), Abs(d))
      s == IF d < 0 THEN -1 ELSE 1
  IN  [n |-> s * (n \div g), d |-> s * (d \div g)]

RInt(a) == [n |-> a, d |-> 1]
\* Sums and comparisons go through the least common denominator.
RAdd(a, b) ==
  LET g == GCD(a.d, b.d)
  IN  R(a.n * (b.d \div g) + b.n * (a.d \div g), (a.d \div g) * b.d)
RSub(a, b) == RAdd(a, [n |-> -b.n, d |-> b.d])
RMul(a, b) ==
  LET g1 == GCD(Abs(a.n), b.d)
      g2 == GCD(Abs(b.n), a.d)
  IN  R((a.n \div g1) * (b.n \div g2), (a.d \div g2) * (b.d \div g1))
RDiv(a, b) == RMul(a, R(b.d, b.n))
RLt(a, b) ==
  LET g == GCD(a.d, b.d) IN a.n * (b.d \div g) < b.n * (a.d \div g)
RLe(a, b) ==
  LET g == GCD(a.d, b.d) IN a.n * (b.d \div g) <= b.n * (a.d \div g)
RMax(a, b) == IF RLt(a, b) THEN b ELSE a
RMin(a, b) == IF RLt(b, a) THEN b ELSE a
Max(a, b) == IF a < b THEN b ELSE a

(***************************************************************************)
(* The inputs of a layout pass.                                            *)
(***************************************************************************)
\* Viewports (width, height) in px: phones, a tablet, laptops, desktops.
Viewports ==
  { <<375, 667>>, <<768, 1024>>, <<1280, 720>>, <<1440, 900>>, <<1920, 1080>> }

Rect(l, r, t, b) == [left |-> l, right |-> r, top |-> t, bottom |-> b]

\* getBoundingClientRect() of <main> and of the three protected selectors, for
\* a viewport W x H.  document.querySelector returns null for an element that
\* is not rendered (the tap hint is rendered in the mobile view only).
MainRect(W, H) == Rect(W \div 10, (9 * W) \div 10, H \div 10, (9 * H) \div 10)
HeroTitle(W, H) ==
  [name |-> ".hero-title",
   rect |-> Rect(W \div 4, (3 * W) \div 4, H \div 4, H \div 4 + 160)]
TapHintSvg(W, H) ==
  [name |-> ".tap-hint-svg",
   rect |-> Rect(W \div 2, W \div 2 + 60, H \div 2, H \div 2 + 60)]
TapHintSvgText(W, H) ==
  [name |-> ".tap-hint-svg-text",
   rect |-> Rect(W \div 2 - 40, W \div 2 + 40, H \div 2 + 70, H \div 2 + 90)]

DomLayouts(W, H) ==
  { [safeRect |-> MainRect(W, H), elements |-> << >>],
    [safeRect |-> MainRect(W, H), elements |-> <<HeroTitle(W, H)>>],
    [safeRect |-> MainRect(W, H),
     elements |-> <<HeroTitle(W, H), TapHintSvg(W, H), TapHintSvgText(W, H)>>],
    [safeRect |-> Rect(0, W, 0, H), elements |-> <<HeroTitle(W, H)>>] }

\* The catalog after the CSV filter: n rows, row k carrying image k.
Catalog(n) == [k \in 1..n |-> [image |-> k]]

(***************************************************************************)
(* Math.random().                                                          *)
(***************************************************************************)
Random(s) == R(s, RandDen)
NextRng(s) == (5 * s + 3) % RandDen

(***************************************************************************)
(* generateLayout: the values computed before the placement loop.          *)
(***************************************************************************)
EXCLUSION_BUFFER_PX == -50
STICKER_BASE_WIDTH == 300
STICKER_BASE_HEIGHT == 300
baseArea == 1920 * 1080
paddingPx == 24

\* Mutant: Math.min in place of Math.max.
TotalStickersMin(pixelArea) ==
  IF (20 * pixelArea) \div baseArea < 10 THEN (20 * pixelArea) \div baseArea ELSE 10

\* Math.max(10, Math.floor(20 * ratio)), ratio = pixelArea / baseArea
TotalStickersOfArea(pixelArea) == Max(10, (20 * pixelArea) \div baseArea)
TotalStickers(W, H) == TotalStickersOfArea(W * H)

\* Math.max(0.5, Math.min(1.5, ratio * 1.2))
BaseScale(W, H) ==
  RMax(R(1, 2), RMin(R(3, 2), RMul(R(W * H, baseArea), R(6, 5))))

\* (px / total) * 100
Pct(px, total) == R(px * 100, total)

\* Mutant: the buffer applied with the opposite sign on every side.
ExclusionZoneOutset(el, W, H) ==
  LET bufferPctX == Pct(EXCLUSION_BUFFER_PX, W)
      bufferPctY == Pct(EXCLUSION_BUFFER_PX, H)
  IN  [xMin |-> RAdd(Pct(el.rect.left, W), bufferPctX),
       xMax |-> RSub(Pct(el.rect.right, W), bufferPctX),
       yMin |-> RAdd(Pct(el.rect.top, H), bufferPctY),
       yMax |-> RSub(Pct(el.rect.bottom, H), bufferPctY),
       name |-> el.name]

\* The zone pushed for one measured element.
ExclusionZone(el, W, H) ==
  LET bufferPctX == Pct(EXCLUSION_BUFFER_PX, W)
      bufferPctY == Pct(EXCLUSION_BUFFER_PX, H)
  IN  [xMin |-> RSub(Pct(el.rect.left, W), bufferPctX),
       xMax |-> RAdd(Pct(el.rect.right, W), bufferPctX),
       yMin |-> RSub(Pct(el.rect.top, H), bufferPctY),
       yMax |-> RAdd(Pct(el.rect.bottom, H), bufferPctY),
       name |-> el.name]

ExclusionZones(elements, W, H) ==
  [k \in 1..Len(elements) |-> ExclusionZone(elements[k], W, H)]

SafeZone(mobile, safeRect, W, H) ==
  IF mobile THEN None
  ELSE IF safeRect # None
  THEN [xMin |-> RMax(RInt(0), Pct(safeRect.left - paddingPx, W)),
        xMax |-> RMin(RInt(100), Pct(safeRect.right + paddingPx, W)),
        yMin |-> RMax(RInt(0), Pct(safeRect.top - paddingPx, H)),
        yMax |-> RMin(RInt(100), Pct(safeRect.bottom + paddingPx, H))]
  ELSE LET uiWidth == RMin(RInt(1000), R(9 * W, 10))
           uiHeight == RMin(RInt(800), R(8 * H, 10))
           xSafePct == RMul(RDiv(uiWidth, RInt(W)), RInt(100))
           ySafePct == RMul(RDiv(uiHeight, RInt(H)), RInt(100))
       IN  [xMin |-> RSub(RSub(RInt(50), RDiv(xSafePct, RInt(2))), RInt(2)),
            xMax |-> RAdd(RAdd(RInt(50), RDiv(xSafePct, RInt(2))), RInt(2)),
            yMin |-> RSub(RSub(RInt(50), RDiv(ySafePct, RInt(2))), RInt(2)),
            yMax |-> RAdd(RAdd(RInt(50), RDiv(ySafePct, RInt(2))), RInt(2))]

\* ((STICKER_BASE_WIDTH * scale) / innerWidth) * 100, and the same for height
StickerWidthPct(scale, W) == RMul(RDiv(RMul(RInt(STICKER_BASE_WIDTH), scale), RInt(W)), RInt(100))
StickerHeightPct(scale, H) == RMul(RDiv(RMul(RInt(STICKER_BASE_HEIGHT), scale), RInt(H)), RInt(100))

Half(a) == RDiv(a, RInt(2))

\* Mutant: (x, y) taken for the sticker's top-left corner.
OverlapsCornerAnchored(x, y, scale, zones, W, H) ==
  LET stickerXMax == RAdd(x, StickerWidthPct(scale, W))
      stickerYMax == RAdd(y, StickerHeightPct(scale, H))
  IN  \E k \in 1..Len(zones) :
        /\ RLt(zones[k].xMin, stickerXMax) /\ RLt(x, zones[k].xMax)
        /\ RLt(zones[k].yMin, stickerYMax) /\ RLt(y, zones[k].yMax)

\* overlapsExclusionZone(x, y, scale): the sticker is centred on (x, y).
OverlapsExclusionZone(x, y, scale, zones, W, H) ==
  LET stickerXMin == RSub(x, Half(StickerWidthPct(scale, W)))
      stickerXMax == RAdd(x, Half(StickerWidthPct(scale, W)))
      stickerYMin == RSub(y, Half(StickerHeightPct(scale, H)))
      stickerYMax == RAdd(y, Half(StickerHeightPct(scale, H)))
  IN  \E k \in 1..Len(zones) :
        /\ RLt(zones[k].xMin, stickerXMax) /\ RLt(stickerXMin, zones[k].xMax)
        /\ RLt(zones[k].yMin, stickerYMax) /\ RLt(stickerYMin, zones[k].yMax)

\* Mutant: the two y bounds exchanged.
InSafeZoneSwapped(x, y, zone) ==
  /\ zone # None
  /\ RLt(zone.xMin, x) /\ RLt(x, zone.xMax)
  /\ RLt(zone.yMax, y) /\ RLt(y, zone.yMin)

\* safeZone && x > xMin && x < xMax && y > yMin && y < yMax
InSafeZone(x, y, zone) ==
  /\ zone # None
  /\ RLt(zone.xMin, x) /\ RLt(x, zone.xMax)
  /\ RLt(zone.yMin, y) /\ RLt(y, zone.yMax)

\* x >= 0 && x <= 100 && y >= 0 && y <= 100
InBounds(x, y) ==
  /\ RLe(RInt(0), x) /\ RLe(x, RInt(100))
  /\ RLe(RInt(0), y) /\ RLe(y, RInt(100))

\* Math.ceil(Math.sqrt(num / den)): the least n with n * n >= num / den
RECURSIVE CeilSqrtFrom(_, _, _)
CeilSqrtFrom(n, num, den) ==
  IF n * n * den >= num THEN n ELSE CeilSqrtFrom(n + 1, num, den)

\* Math.ceil(Math.sqrt(totalStickers / aspectRatio)), aspectRatio = W / H
GridRows(total, W, H) == CeilSqrtFrom(0, total * H, W)
\* Mutant: Math.floor in place of Math.ceil.
GridColsFloor(total, rows) == total \div rows
\* Math.ceil(totalStickers / gridRows)
GridCols(total, rows) == (total + rows - 1) \div rows

\* The cells pushed row by row, column by column.
GridCellsOf(rows, cols) ==
  [k \in 1..(rows * cols) |-> [row |-> (k - 1) \div cols, col |-> (k - 1) % cols]]

\* Fisher-Yates from index idx (0-based) down to 1, drawing from generator s.
RECURSIVE FisherYates(_, _, _)
FisherYates(cells, idx, s) ==
  IF idx <= 0 THEN [cells |-> cells, rng |-> s]
  ELSE LET j == (s * (idx + 1)) \div RandDen
           swapped == [cells EXCEPT ![idx + 1] = cells[j + 1], ![j + 1] = cells[idx + 1]]
       IN  FisherYates(swapped, idx - 1, NextRng(s))

CellWidth(cols) == R(100, cols)
CellHeight(rows) == R(100, rows)
\* Mutant: a jitter of one and a half cells.
JitterXWide(cols) == RMul(CellWidth(cols), R(3, 2))
JitterX(cols) == RMul(CellWidth(cols), R(1, 2))
JitterY(rows) == RMul(CellHeight(rows), R(1, 2))

\* (cell.col + 0.5) * cellWidth
CellCenter(index, size) == RMul(R(2 * index + 1, 2), size)
\* center + (Math.random() - 0.5) * jitter
Jittered(center, s, jitter) ==
  RAdd(center, RMul(RSub(Random(s), R(1, 2)), jitter))
\* A band of 20% on either side of baseScale: baseScale * (0.8 + Math.random() * 0.4)
StickerScaleSymmetric(base, s) == RMul(base, RAdd(R(4, 5), RMul(Random(s), R(2, 5))))

\* baseScale * (0.9 + Math.random() * 0.4)
StickerScale(base, s) == RMul(base, RAdd(R(9, 10), RMul(Random(s), R(2, 5))))
\* Mutant: the whole footprint subtracted.
AdjustedFull(center, sizePct) == RSub(center, sizePct)
\* adjustedX = x - stickerWidthPct / 2 (and adjustedY): centre to top-left corner
Adjusted(center, sizePct) == RSub(center, Half(sizePct))
\* Mutant: the two zone tests joined by "or".
AcceptEither(inBounds, inSafeZone, overlapsExclusion) ==
  inBounds /\ (~inSafeZone \/ ~overlapsExclusion)

\* if (inBounds && !inSafeZone && !overlapsExclusion)
Accept(inBounds, inSafeZone, overlapsExclusion) ==
  inBounds /\ ~inSafeZone /\ ~overlapsExclusion

\* Mutant: a slot without a position is placed at the origin.
AfterSlotForced(list, stickerData, pos) ==
  IF pos # None
  THEN Append(list, [image |-> stickerData.image, left |-> pos.left, top |-> pos.top,
                     rotation |-> pos.rotation, scale |-> pos.scale])
  ELSE Append(list, [image |-> stickerData.image, left |-> RInt(0), top |-> RInt(0),
                     rotation |-> RInt(0), scale |-> RInt(1)])

\* if (position) newStickers.push({ ...stickerData, ...position })
AfterSlot(list, stickerData, pos) ==
  IF pos # None
  THEN Append(list, [image |-> stickerData.image, left |-> pos.left, top |-> pos.top,
                     rotation |-> pos.rotation, scale |-> pos.scale])
  ELSE list

\* Mutant: a slot that found no cell sends the cursor back to the first cell.
NextCellIndexRewinding(index, pos) == IF pos # None THEN index + 1 ELSE 0
\* Mutant: the cursor stays on the accepted cell.
NextCellIndexStuck(index, pos) == index

\* if (position) cellIndex++  (move to the next cell for the next sticker)
NextCellIndex(index, pos) == IF pos # None THEN index + 1 ELSE index

\* (Math.random() - 0.5) * 60
Rotation(s) == RMul(RSub(Random(s), R(1, 2)), RInt(60))

\* The variables of the server while the page is looked at without it.
ServerIdle ==
  /\ env = None
  /\ users = {}
  /\ tokens = {}
  /\ now = 0
  /\ issued = {}
  /\ lastRequest = None

\* The variables of the Sticker while the page is looked at without it.
StickerIdle ==
  /\ parallaxFactor = 0
  /\ motionX = 0
  /\ motionY = 0
  /\ stickerPhase = "new"
  /\ deviceOrientation = "absent"
  /\ run = None
  /\ runsStarted = 0
  /\ mouseListeners = {}
  /\ orientationListeners = << >>
  /\ permissionPending = {}
  /\ lastWrite = None

\* The variables of the effect's life while one layout pass is looked at on
\* its own: a mounted page, its catalog loaded, no event or timer in flight.
EffectIdle ==
  /\ mounted = TRUE
  /\ loaded = TRUE
  /\ rendered = None
  /\ effect = None
  /\ timers = {}
  /\ resizePending = FALSE
  /\ resizes = 0
  /\ observedWidth = 0
  /\ sinceResize = 0
  /\ lastEvent = None
  /\ effects = 0
  /\ lastPass = None
  /\ resizeListeners = {}
  /\ variant = "App.jsx"

(***************************************************************************)
(* The state machine of one layout pass.                                   *)
(*                                                                         *)
(* Init is the state in which the layout effect runs with a loaded         *)
(* catalog: generateLayout reads window.innerWidth/innerHeight and the DOM *)
(* at the moment it is called, and isMobileView from the render that       *)
(* created the effect.  The two are read at different times (the timer     *)
(* callback of the debounce runs with the closure of an earlier render),   *)
(* so isMobileView is not tied to the width read by the pass.              *)
(***************************************************************************)
Init ==
  /\ \E v \in Viewports :
       /\ innerWidth = v[1]
       /\ innerHeight = v[2]
       /\ dom \in DomLayouts(v[1], v[2])
  /\ isMobileView \in BOOLEAN
  /\ \E n \in 1..MaxCatalog : stickers = Catalog(n)
  /\ rng \in 0..(RandDen - 1)
  /\ generatedStickers = << >>
  /\ pc = "mount"
  /\ totalStickers = 0
  /\ baseScale = RInt(0)
  /\ exclusionZones = << >>
  /\ safeZone = None
  /\ gridRows = 0
  /\ gridCols = 0
  /\ gridCells = << >>
  /\ cellIndex = 0
  /\ i = 0
  /\ attempts = 0
  /\ position = None
  /\ newStickers = << >>
  /\ cand = None
  /\ tested = << >>
  /\ placedCell = << >>
  /\ sampled = None
  /\ passed = {}
  /\ EffectIdle
  /\ StickerIdle
  /\ ServerIdle

\* generateLayout up to "let cellIndex = 0": counts, zones, grid and shuffle.
GenerateLayout ==
  /\ pc = "mount"
  /\ Len(stickers) # 0
  /\ LET total == TotalStickers(innerWidth, innerHeight)
         rows == GridRows(total, innerWidth, innerHeight)
         cols == GridCols(total, rows)
         cells == GridCellsOf(rows, cols)
         shuffled == FisherYates(cells, Len(cells) - 1, rng)
     IN  /\ totalStickers' = total
         /\ baseScale' = BaseScale(innerWidth, innerHeight)
         /\ exclusionZones' = ExclusionZones(dom.elements, innerWidth, innerHeight)
         /\ safeZone' = SafeZone(isMobileView, dom.safeRect, innerWidth, innerHeight)
         /\ gridRows' = rows
         /\ gridCols' = cols
         /\ gridCells' = shuffled.cells
         /\ rng' = shuffled.rng
  /\ newStickers' = << >>
  /\ cellIndex' = 0
  /\ i' = 0
  /\ attempts' = 0
  /\ position' = None
  /\ pc' = "loop"
  /\ UNCHANGED beyondLayout
  /\ UNCHANGED <<sampled, passed>>
  /\ UNCHANGED <<innerWidth, innerHeight, isMobileView, dom, stickers,
                 generatedStickers, cand, tested, placedCell>>

\* The condition of the inner while loop.
WhileCond ==
  /\ attempts < Len(gridCells)
  /\ position = None
  /\ cellIndex < Len(gridCells)

\* One iteration of the inner while loop: test gridCells[cellIndex].
TryCell ==
  /\ pc = "loop"
  /\ i < totalStickers
  /\ WhileCond
  /\ LET cell == gridCells[cellIndex + 1]
         s1 == rng
         s2 == NextRng(s1)
         s3 == NextRng(s2)
         s4 == NextRng(s3)
         x == Jittered(CellCenter(cell.col, CellWidth(gridCols)), s1, JitterX(gridCols))
         y == Jittered(CellCenter(cell.row, CellHeight(gridRows)), s2, JitterY(gridRows))
         stickerScale == StickerScale(baseScale, s3)
         inBounds == InBounds(x, y)
         inSafeZone == InSafeZone(x, y, safeZone)
         overlapsExclusion ==
           OverlapsExclusionZone(x, y, stickerScale, exclusionZones,
                                 innerWidth, innerHeight)
     IN  /\ cand' = [cell |-> cell, x |-> x, y |-> y, scale |-> stickerScale]
         /\ tested' = Append(tested, cellIndex)
         /\ passed' = IF Accept(inBounds, inSafeZone, overlapsExclusion)
                      THEN passed \cup {cellIndex}
                      ELSE passed
         /\ IF Accept(inBounds, inSafeZone, overlapsExclusion)
            THEN /\ position' =
                      [left |-> Adjusted(x, StickerWidthPct(stickerScale, innerWidth)),
                       top |-> Adjusted(y, StickerHeightPct(stickerScale, innerHeight)),
                       rotation |-> Rotation(s4),
                       scale |-> stickerScale]
                 /\ rng' = NextRng(s4)
                 /\ UNCHANGED <<cellIndex, attempts>>
            ELSE /\ cellIndex' = cellIndex + 1
                 /\ attempts' = attempts + 1
                 /\ rng' = NextRng(s3)
                 /\ UNCHANGED position
  /\ UNCHANGED beyondLayout
  /\ UNCHANGED sampled
  /\ UNCHANGED <<innerWidth, innerHeight, isMobileView, dom, stickers,
                 generatedStickers, pc, totalStickers, baseScale, exclusionZones,
                 safeZone, gridRows, gridCols, gridCells, i, newStickers, placedCell>>

\* The inner loop has ended for slot i: push the position, if any; next slot.
SlotEnd ==
  /\ pc = "loop"
  /\ i < totalStickers
  /\ ~WhileCond
  /\ newStickers' = AfterSlot(newStickers, stickers[(i % Len(stickers)) + 1], position)
  /\ cellIndex' = NextCellIndex(cellIndex, position)
  /\ placedCell' = IF position # None THEN Append(placedCell, cand.cell) ELSE placedCell
  /\ i' = i + 1
  /\ attempts' = 0
  /\ position' = None
  /\ UNCHANGED beyondLayout
  /\ UNCHANGED <<sampled, passed>>
  /\ UNCHANGED <<innerWidth, innerHeight, isMobileView, dom, stickers,
                 generatedStickers, rng, pc, totalStickers, baseScale,
                 exclusionZones, safeZone, gridRows, gridCols, gridCells, cand,
                 tested>>

\* setGeneratedStickers(newStickers)
SetGeneratedStickers ==
  /\ pc = "loop"
  /\ i = totalStickers
  /\ generatedStickers' = newStickers
  /\ pc' = "done"
  /\ UNCHANGED beyondLayout
  /\ UNCHANGED <<sampled, passed>>
  /\ UNCHANGED <<innerWidth, innerHeight, isMobileView, dom, stickers, rng,
                 totalStickers, baseScale, exclusionZones, safeZone, gridRows,
                 gridCols, gridCells, cellIndex, i, attempts, position,
                 newStickers, cand, tested, placedCell>>

Next == GenerateLayout \/ TryCell \/ SlotEnd \/ SetGeneratedStickers

Spec == Init /\ [][Next]_vars

(***************************************************************************)
(* The life of the layout effect (App.jsx 62-70, 106-121, 143-148,         *)
(* 180-399): the catalog arriving, renders, resize events, the debounce    *)
(* timer and the unmount.  A layout pass is one step here: it reads the    *)
(* window when it runs and stores a fresh list, and every placement of     *)
(* the list records the pass that made it and the viewport that pass read. *)
(* Time advances in steps of TickMs; a render and the dispatch of a resize *)
(* event take less than one step, and a timeout fires when it is due.      *)
(***************************************************************************)
\* setTimeout(generateLayout, 200)
DEBOUNCE_MS == 200
\* window.innerWidth <= 768
MOBILE_BREAKPOINT == 768
\* The step of the clock.
TickMs == DEBOUNCE_MS \div 2
\* The window changes size at most MaxResizes times.
MaxResizes == 2
\* A layout pass of this specification stores no placement or MaxPlaced.
MaxPlaced == 1
\* The sizes the window takes.
ResizeWidths == {375, 768, 1280}
ResizeHeights == {667, 720}

\* The variables of a layout pass, at rest.
PassIdle ==
  /\ dom = None
  /\ rng = 0
  /\ pc = "mount"
  /\ totalStickers = 0
  /\ baseScale = RInt(0)
  /\ exclusionZones = << >>
  /\ safeZone = None
  /\ gridRows = 0
  /\ gridCols = 0
  /\ gridCells = << >>
  /\ cellIndex = 0
  /\ i = 0
  /\ attempts = 0
  /\ position = None
  /\ newStickers = << >>
  /\ cand = None
  /\ tested = << >>
  /\ placedCell = << >>
  /\ sampled = None
  /\ passed = {}

\* The dependency array [stickers, isMobileView] of the layout effect: the
\* stickers array changes identity when the fetch sets it.
Deps == [loaded |-> loaded, isMobileView |-> isMobileView]

\* The list a pass builds: const newStickers = [] and one push per placement.
LayoutOf(pass, W, H, n) ==
  [k \in 1..n |-> [pass |-> pass, width |-> W, height |-> H, slot |-> k]]

\* A pass that keeps what was stored and adds to it.
StoredAfterPassKeeping(old, fresh) == old \o fresh

\* setGeneratedStickers(newStickers)
StoredAfterPass(old, fresh) == fresh

\* The effect never returns early.
EffectNeverSkips(catalog) == FALSE

\* if (stickers.length === 0) return;
EffectSkips(catalog) == Len(catalog) = 0

\* A handler that re-schedules on every resize event.
WidthChangedAlways(width, last) == TRUE

\* if (window.innerWidth !== lastWidth)
WidthChanged(width, last) == width # last

\* A clearTimeout that cancels nothing.
ClearTimeoutNoop(pending, id) == pending

\* clearTimeout(timeoutId): no effect when the id is undefined or has fired.
ClearTimeout(pending, id) == {t \in pending : t.id # id}

\* A removeEventListener that removes nothing.
RemoveEventListenerNoop(attached, e) == attached

\* window.removeEventListener('resize', handleResize) in the cleanup of the
\* effect run e; a run that returned early registered no cleanup.
RemoveEventListener(attached, e) == IF e = None THEN attached ELSE attached \ {e.id}

\* A timeout that is due at once.
NewTimerImmediate(id, e) ==
  [id |-> id, owner |-> e.id, isMobileView |-> e.isMobileView, left |-> 0]

\* setTimeout(generateLayout, 200): the callback is the generateLayout of
\* the effect run e, with the isMobileView that run captured.
NewTimer(id, e) ==
  [id |-> id, owner |-> e.id, isMobileView |-> e.isMobileView, left |-> DEBOUNCE_MS]

\* generateLayout() as one step, run by `by` with the captured isMobileView.
RunPass(by, mobile) ==
  \E n \in {0, MaxPlaced} :
    /\ generatedStickers' =
         StoredAfterPass(generatedStickers,
                         LayoutOf(lastPass.n + 1, innerWidth, innerHeight, n))
    /\ lastPass' = [n |-> lastPass.n + 1, by |-> by, width |-> innerWidth,
                    height |-> innerHeight, isMobileView |-> mobile,
                    since |-> sinceResize, event |-> lastEvent.n,
                    before |-> rendered]

\* The page after its mount: stickers is [], the mount effects have run
\* (isMobileView is set from the width, the fetch is in flight), and the
\* layout effect has returned early.
EffectInit ==
  /\ innerWidth \in ResizeWidths
  /\ innerHeight \in ResizeHeights
  /\ isMobileView = (innerWidth <= MOBILE_BREAKPOINT)
  /\ stickers = << >>
  /\ generatedStickers = << >>
  /\ mounted = TRUE
  /\ loaded = FALSE
  /\ rendered = Deps
  /\ effect = None
  /\ timers = {}
  /\ resizePending = FALSE
  /\ resizes = 0
  /\ observedWidth = innerWidth
  /\ sinceResize = DEBOUNCE_MS
  /\ lastEvent = [n |-> 0, width |-> innerWidth, widthChanged |-> FALSE,
                  heightOnly |-> FALSE, pending |-> FALSE,
                  scheduled |-> FALSE]
  /\ effects = 0
  /\ lastPass = [n |-> 0, by |-> "none", width |-> 0, height |-> 0,
                 isMobileView |-> FALSE, since |-> 0, event |-> 0,
                 before |-> None]
  /\ resizeListeners = {}
  /\ variant = "App.jsx"
  /\ PassIdle
  /\ StickerIdle
  /\ ServerIdle

Least(a, b) == IF a < b THEN a ELSE b

\* The fetch resolves and the parse completes: setStickers(validData), the
\* rows that have an image and a link; there may be none.
LoadCatalog ==
  /\ mounted
  /\ ~loaded
  /\ \E n \in {0, 1, MaxCatalog} : stickers' = Catalog(n)
  /\ loaded' = TRUE
  /\ UNCHANGED <<innerWidth, innerHeight, isMobileView, generatedStickers>>
  /\ UNCHANGED <<mounted, rendered, effect, timers, resizePending, resizes,
                 observedWidth, sinceResize, lastEvent, effects, lastPass>>
  /\ UNCHANGED <<resizeListeners, variant>>
  /\ UNCHANGED <<passVars, parallaxVars, serverVars>>

\* The window takes a new size; its resize event is dispatched later.
WindowResize ==
  /\ mounted
  /\ resizes < MaxResizes
  /\ \E w \in ResizeWidths, h \in ResizeHeights :
       /\ <<w, h>> # <<innerWidth, innerHeight>>
       /\ innerWidth' = w
       /\ innerHeight' = h
  /\ resizePending' = TRUE
  /\ resizes' = resizes + 1
  /\ UNCHANGED <<isMobileView, stickers, generatedStickers>>
  /\ UNCHANGED <<mounted, loaded, rendered, effect, timers, observedWidth,
                 sinceResize, lastEvent, effects, lastPass>>
  /\ UNCHANGED <<resizeListeners, variant>>
  /\ UNCHANGED <<passVars, parallaxVars, serverVars>>

\* A resize event: the listener of lines 143-148, then the listener of the
\* live layout effect, if there is one (lines 384-392).
DispatchResize ==
  /\ mounted
  /\ resizePending
  /\ resizePending' = FALSE
  /\ isMobileView' = (innerWidth <= MOBILE_BREAKPOINT)
  /\ IF /\ effect # None
        /\ effect.id \in resizeListeners
        /\ WidthChanged(innerWidth, effect.lastWidth)
     THEN /\ effect' = [effect EXCEPT !.lastWidth = innerWidth,
                                      !.timeoutId = lastEvent.n + 1]
          /\ timers' = ClearTimeout(timers, effect.timeoutId)
                         \cup {NewTimer(lastEvent.n + 1, effect)}
     ELSE UNCHANGED <<effect, timers>>
  /\ lastEvent' = [n |-> lastEvent.n + 1,
                   width |-> innerWidth,
                   widthChanged |-> (innerWidth # observedWidth),
                   heightOnly |-> (innerWidth = observedWidth
                                     /\ innerWidth = lastEvent.width),
                   pending |-> (timers # {}),
                   scheduled |-> (effect' # effect)]
  /\ sinceResize' = IF innerWidth # observedWidth THEN 0 ELSE sinceResize
  /\ observedWidth' = innerWidth
  /\ UNCHANGED <<innerWidth, innerHeight, stickers, generatedStickers>>
  /\ UNCHANGED <<mounted, loaded, rendered, resizes, effects, lastPass>>
  /\ UNCHANGED <<resizeListeners, variant>>
  /\ UNCHANGED <<passVars, parallaxVars, serverVars>>

\* A render after a dependency changed: the cleanup of the previous effect
\* run (lines 395-398), then the effect's body (lines 180-394).
Render ==
  /\ mounted
  /\ rendered # Deps
  /\ rendered' = Deps
  /\ timers' = IF effect = None THEN timers
               ELSE ClearTimeout(timers, effect.timeoutId)
  /\ IF EffectSkips(stickers)
     THEN /\ effect' = None
          /\ resizeListeners' = RemoveEventListener(resizeListeners, effect)
          /\ UNCHANGED <<generatedStickers, lastPass, effects, observedWidth>>
     ELSE /\ RunPass("effect", isMobileView)
          /\ effect' = [id |-> effects + 1, isMobileView |-> isMobileView,
                        lastWidth |-> innerWidth, timeoutId |-> 0]
          /\ effects' = effects + 1
          /\ resizeListeners' =
               RemoveEventListener(resizeListeners, effect) \cup {effects + 1}
          /\ observedWidth' = innerWidth
  /\ UNCHANGED <<innerWidth, innerHeight, isMobileView, stickers>>
  /\ UNCHANGED <<mounted, loaded, resizePending, resizes, sinceResize, lastEvent>>
  /\ UNCHANGED variant
  /\ UNCHANGED <<passVars, parallaxVars, serverVars>>

\* A timeout is due: its callback generateLayout runs.
TimerFire ==
  /\ \E t \in timers :
       /\ t.left = 0
       /\ timers' = timers \ {t}
       /\ RunPass("timer", t.isMobileView)
  /\ UNCHANGED <<innerWidth, innerHeight, isMobileView, stickers>>
  /\ UNCHANGED <<mounted, loaded, rendered, effect, resizePending, resizes,
                 observedWidth, sinceResize, lastEvent, effects>>
  /\ UNCHANGED <<resizeListeners, variant>>
  /\ UNCHANGED <<passVars, parallaxVars, serverVars>>

\* TickMs pass; no timeout is overdue, no render or event is outstanding.
Tick ==
  /\ mounted
  /\ rendered = Deps
  /\ ~resizePending
  /\ \A t \in timers : t.left > 0
  /\ timers' = {[t EXCEPT !.left = Max(0, t.left - TickMs)] : t \in timers}
  /\ sinceResize' = Least(DEBOUNCE_MS, sinceResize + TickMs)
  /\ UNCHANGED appVars
  /\ UNCHANGED <<mounted, loaded, rendered, effect, resizePending, resizes,
                 observedWidth, lastEvent, effects, lastPass>>
  /\ UNCHANGED <<resizeListeners, variant>>
  /\ UNCHANGED <<passVars, parallaxVars, serverVars>>

\* App unmounts: the cleanup of the live effect run.
Unmount ==
  /\ mounted
  /\ mounted' = FALSE
  /\ effect' = None
  /\ timers' = IF effect = None THEN timers
               ELSE ClearTimeout(timers, effect.timeoutId)
  /\ UNCHANGED appVars
  /\ UNCHANGED <<loaded, rendered, resizePending, resizes, observedWidth,
                 sinceResize, lastEvent, effects, lastPass>>
  /\ resizeListeners' = RemoveEventListener(resizeListeners, effect)
  /\ UNCHANGED variant
  /\ UNCHANGED <<passVars, parallaxVars, serverVars>>

EffectNext ==
  \/ LoadCatalog
  \/ WindowResize
  \/ DispatchResize
  \/ Render
  \/ TimerFire
  \/ Tick
  \/ Unmount

EffectSpec == EffectInit /\ [][EffectNext]_vars

\* The event loop runs what is ready: pending events are dispatched, pending
\* renders happen, due timeouts fire and time passes.
FairEffectSpec ==
  /\ EffectSpec
  /\ WF_vars(DispatchResize)
  /\ WF_vars(Render)
  /\ WF_vars(TimerFire)
  /\ WF_vars(Tick)

(***************************************************************************)
(* The same life with the layout effect of src/unnamed/part_000 (80-211):  *)
(* its dependencies are [stickers] alone and its handleResize re-schedules *)
(* on every resize event.  The page runs one of the two sources.           *)
(***************************************************************************)
Variants == {"App.jsx", "part_000"}

\* The page after its mount, from either source.
DebounceInit ==
  /\ variant \in Variants
  /\ innerWidth \in ResizeWidths
  /\ innerHeight \in ResizeHeights
  /\ isMobileView = (innerWidth <= MOBILE_BREAKPOINT)
  /\ stickers = << >>
  /\ generatedStickers = << >>
  /\ mounted = TRUE
  /\ loaded = FALSE
  /\ rendered = Deps
  /\ effect = None
  /\ timers = {}
  /\ resizePending = FALSE
  /\ resizes = 0
  /\ observedWidth = innerWidth
  /\ sinceResize = DEBOUNCE_MS
  /\ lastEvent = [n |-> 0, width |-> innerWidth, widthChanged |-> FALSE,
                  heightOnly |-> FALSE, pending |-> FALSE,
                  scheduled |-> FALSE]
  /\ effects = 0
  /\ lastPass = [n |-> 0, by |-> "none", width |-> 0, height |-> 0,
                 isMobileView |-> FALSE, since |-> 0, event |-> 0,
                 before |-> None]
  /\ resizeListeners = {}
  /\ PassIdle
  /\ StickerIdle
  /\ ServerIdle

\* A resize event in part_000: the listener of lines 43-48, then the listener
\* of the live layout effect, if there is one (lines 200-204).
LegacyDispatchResize ==
  /\ variant = "part_000"
  /\ mounted
  /\ resizePending
  /\ resizePending' = FALSE
  /\ isMobileView' = (innerWidth <= MOBILE_BREAKPOINT)
  /\ IF effect # None /\ effect.id \in resizeListeners
     THEN /\ effect' = [effect EXCEPT !.timeoutId = lastEvent.n + 1]
          /\ timers' = ClearTimeout(timers, effect.timeoutId)
                         \cup {NewTimer(lastEvent.n + 1, effect)}
     ELSE UNCHANGED <<effect, timers>>
  /\ lastEvent' = [n |-> lastEvent.n + 1,
                   width |-> innerWidth,
                   widthChanged |-> (innerWidth # observedWidth),
                   heightOnly |-> (innerWidth = observedWidth
                                     /\ innerWidth = lastEvent.width),
                   pending |-> (timers # {}),
                   scheduled |-> (effect' # effect)]
  /\ sinceResize' = IF innerWidth # observedWidth THEN 0 ELSE sinceResize
  /\ observedWidth' = innerWidth
  /\ UNCHANGED <<innerWidth, innerHeight, stickers, generatedStickers>>
  /\ UNCHANGED <<mounted, loaded, rendered, resizes, effects, lastPass>>
  /\ UNCHANGED <<resizeListeners, variant>>
  /\ UNCHANGED <<passVars, parallaxVars, serverVars>>

\* A render in part_000 after a state changed: the layout effect is cleaned
\* up (lines 207-210) and run again (lines 81-206) only when stickers changed.
LegacyRender ==
  /\ variant = "part_000"
  /\ mounted
  /\ rendered # Deps
  /\ rendered' = Deps
  /\ IF rendered.loaded = loaded
     THEN UNCHANGED <<timers, effect, resizeListeners, generatedStickers,
                      lastPass, effects, observedWidth>>
     ELSE /\ timers' = IF effect = None THEN timers
                       ELSE ClearTimeout(timers, effect.timeoutId)
          /\ IF EffectSkips(stickers)
             THEN /\ effect' = None
                  /\ resizeListeners' = RemoveEventListener(resizeListeners, effect)
                  /\ UNCHANGED <<generatedStickers, lastPass, effects, observedWidth>>
             ELSE /\ RunPass("effect", isMobileView)
                  /\ effect' = [id |-> effects + 1, isMobileView |-> isMobileView,
                                lastWidth |-> innerWidth, timeoutId |-> 0]
                  /\ effects' = effects + 1
                  /\ resizeListeners' =
                       RemoveEventListener(resizeListeners, effect) \cup {effects + 1}
                  /\ observedWidth' = innerWidth
  /\ UNCHANGED <<innerWidth, innerHeight, isMobileView, stickers>>
  /\ UNCHANGED <<mounted, loaded, resizePending, resizes, sinceResize, lastEvent>>
  /\ UNCHANGED variant
  /\ UNCHANGED <<passVars, parallaxVars, serverVars>>

\* The two steps of App.jsx, taken by a page that runs App.jsx.
CurrentDispatchResize == variant = "App.jsx" /\ DispatchResize
CurrentRender == variant = "App.jsx" /\ Render

DebounceNext ==
  \/ LoadCatalog
  \/ WindowResize
  \/ CurrentDispatchResize
  \/ CurrentRender
  \/ LegacyDispatchResize
  \/ LegacyRender
  \/ TimerFire
  \/ Tick
  \/ Unmount

DebounceSpec == DebounceInit /\ [][DebounceNext]_vars

(***************************************************************************)
(* The parallax effect of one Sticker (components/Sticker.jsx 4-77): the   *)
(* prop parallaxFactor, the motion values x and y, the listeners the       *)
(* effect attaches to window and the permission request of                 *)
(* DeviceOrientationEvent that it awaits.                                  *)
(***************************************************************************)
\* parallaxFactor = 1000 (the default of the destructured prop)
DEFAULT_PARALLAX_FACTOR == 1000
\* Math.max(-45, Math.min(45, gamma))
MAX_TILT == 45
\* The effect runs at most MaxRuns times.
MaxRuns == 2

\* Values of the prop as the parent passes it.
Undefined == [kind |-> "undefined", value |-> 0]
Null == [kind |-> "null", value |-> 0]
Num(v) == [kind |-> "number", value |-> v]
PropValues == {Undefined, Null, Num(-5), Num(0), Num(20), Num(100)}

\* A tilt reading: a finite number of degrees, or null, NaN or an infinity.
NonFinite == [finite |-> FALSE, value |-> 0]
Finite(v) == [finite |-> TRUE, value |-> v]
\* The readings <<gamma, beta>> of the deviceorientation events.
TiltEvents ==
  {<<NonFinite, Finite(45)>>, <<Finite(-90), NonFinite>>, <<Finite(-30), Finite(90)>>}

\* The sizes the window takes while the Sticker is mounted.
StickerViewports == {<<375, 667>>, <<1280, 720>>}

\* parallaxFactor = 1000 in the parameter list: the default replaces
\* undefined only.
Defaulted(p) == IF p.kind = "undefined" THEN Num(DEFAULT_PARALLAX_FACTOR) ELSE p

\* Only a factor of zero switches the parallax off.
IdentityFactorZeroOnly(p) == p.kind = "null" \/ p.value = 0

\* !parallaxFactor || parallaxFactor <= 0
IdentityFactor(p) == p.kind = "null" \/ p.value <= 0

\* (e.clientX - innerWidth / 2) / parallaxFactor
MouseOffset(client, size, factor) ==
  RDiv(RSub(RInt(client), R(size, 2)), RInt(factor))

\* Number.isFinite(event.gamma) ? event.gamma : 0, clamped to [-45, 45]
ClampedTilt(reading) ==
  LET v == IF reading.finite THEN reading.value ELSE 0
  IN  Max(-MAX_TILT, Least(MAX_TILT, v))

\* (clampedGamma / 45) * (window.innerWidth / 2 / parallaxFactor)
OrientationOffset(reading, size, factor) ==
  RMul(R(ClampedTilt(reading), MAX_TILT), RDiv(R(size, 2), RInt(factor)))

\* The variables of the layout effect's life, at rest.
EffectAtRest ==
  /\ isMobileView = FALSE
  /\ stickers = << >>
  /\ generatedStickers = << >>
  /\ EffectIdle

NoWrite ==
  [by |-> "init", id |-> 0, factor |-> 0, width |-> 0, height |-> 0,
   gamma |-> NonFinite, beta |-> NonFinite, stale |-> FALSE]

\* Before the Sticker mounts: the motion values are useMotionValue(0), the
\* platform has no DeviceOrientationEvent ("absent"), has it without a
\* permission request ("direct") or has requestPermission ("request").
StickerInit ==
  /\ \E v \in StickerViewports : innerWidth = v[1] /\ innerHeight = v[2]
  /\ parallaxFactor \in PropValues
  /\ deviceOrientation \in {"absent", "direct", "request"}
  /\ motionX = RInt(0)
  /\ motionY = RInt(0)
  /\ stickerPhase = "new"
  /\ run = None
  /\ runsStarted = 0
  /\ mouseListeners = {}
  /\ orientationListeners = << >>
  /\ permissionPending = {}
  /\ lastWrite = NoWrite
  /\ EffectAtRest
  /\ PassIdle
  /\ ServerIdle

\* The listeners left by the cleanup of the live run (lines 71-76).
MouseAfterCleanup ==
  IF run = None THEN mouseListeners
  ELSE {h \in mouseListeners : h.id # run.id}

OrientationAfterCleanup ==
  IF run # None /\ run.orientationAttached
  THEN SelectSeq(orientationListeners, LAMBDA h : h.id # run.id)
  ELSE orientationListeners

\* The body of the effect (lines 19-69) run with the prop p, after the
\* cleanup of the previous run.
RunEffect(p) ==
  LET f == Defaulted(p)
      id == runsStarted + 1
      h == [id |-> id, factor |-> f.value]
  IN  /\ runsStarted' = id
      /\ IF IdentityFactor(f)
         THEN /\ motionX' = RInt(0)
              /\ motionY' = RInt(0)
              /\ lastWrite' = [NoWrite EXCEPT !.by = "effect", !.id = id]
              /\ run' = None
              /\ mouseListeners' = MouseAfterCleanup
              /\ orientationListeners' = OrientationAfterCleanup
              /\ UNCHANGED permissionPending
         ELSE /\ run' = [id |-> id, factor |-> f.value,
                         orientationAttached |-> (deviceOrientation = "direct")]
              /\ mouseListeners' = MouseAfterCleanup \cup {h}
              /\ orientationListeners' =
                   IF deviceOrientation = "direct"
                   THEN Append(OrientationAfterCleanup, h)
                   ELSE OrientationAfterCleanup
              /\ permissionPending' =
                   IF deviceOrientation = "request"
                   THEN permissionPending \cup {h}
                   ELSE permissionPending
              /\ UNCHANGED <<motionX, motionY, lastWrite>>

\* The Sticker mounts: the first run of the effect.
StickerMount ==
  /\ stickerPhase = "new"
  /\ stickerPhase' = "mounted"
  /\ RunEffect(parallaxFactor)
  /\ UNCHANGED <<parallaxFactor, deviceOrientation>>
  /\ UNCHANGED <<appVars, passVars, effectVars, serverVars>>

\* The parent renders the Sticker with another parallaxFactor: the cleanup
\* of the live run, then the effect's body.
SetParallaxFactor ==
  /\ stickerPhase = "mounted"
  /\ runsStarted < MaxRuns
  /\ \E p \in PropValues :
       /\ Defaulted(p) # Defaulted(parallaxFactor)
       /\ parallaxFactor' = p
       /\ RunEffect(p)
  /\ UNCHANGED <<stickerPhase, deviceOrientation>>
  /\ UNCHANGED <<appVars, passVars, effectVars, serverVars>>

\* DeviceOrientationEvent.requestPermission() settles for the run h: the
\* rest of enableOrientation runs (lines 58-65).
PermissionResolves ==
  /\ \E h \in permissionPending, granted \in BOOLEAN :
       /\ permissionPending' = permissionPending \ {h}
       /\ orientationListeners' =
            IF granted THEN Append(orientationListeners, h)
            ELSE orientationListeners
       /\ run' = IF granted /\ run # None /\ run.id = h.id
                 THEN [run EXCEPT !.orientationAttached = TRUE]
                 ELSE run
  /\ UNCHANGED <<parallaxFactor, motionX, motionY, stickerPhase, deviceOrientation,
                 runsStarted, mouseListeners, lastWrite>>
  /\ UNCHANGED <<appVars, passVars, effectVars, serverVars>>

\* A mousemove event: handleMouseMove of an attached listener (lines 30-35).
MouseMoveEvent ==
  /\ \E h \in mouseListeners :
     \E corner \in {0, 1} :
       LET clientX == corner * innerWidth
           clientY == corner * innerHeight
       IN
       /\ motionX' = MouseOffset(clientX, innerWidth, h.factor)
       /\ motionY' = MouseOffset(clientY, innerHeight, h.factor)
       /\ lastWrite' = [NoWrite EXCEPT !.by = "mouse", !.id = h.id,
                                       !.factor = h.factor,
                                       !.width = innerWidth,
                                       !.height = innerHeight]
  /\ UNCHANGED <<parallaxFactor, stickerPhase, deviceOrientation, run,
                 runsStarted, mouseListeners, orientationListeners,
                 permissionPending>>
  /\ UNCHANGED <<appVars, passVars, effectVars, serverVars>>

\* A deviceorientation event: every attached handleOrientation runs, in
\* the order of attachment (lines 38-48); the last one's values remain.
OrientationEvent ==
  /\ orientationListeners # << >>
  /\ \E tilt \in TiltEvents :
       LET gamma == tilt[1]
           beta == tilt[2]
           h == orientationListeners[Len(orientationListeners)]
       IN  /\ motionX' = OrientationOffset(gamma, innerWidth, h.factor)
           /\ motionY' = OrientationOffset(beta, innerHeight, h.factor)
           /\ lastWrite' = [by |-> "orientation", id |-> h.id,
                            factor |-> h.factor, width |-> innerWidth,
                            height |-> innerHeight, gamma |-> gamma,
                            beta |-> beta,
                            stale |-> (run = None \/ run.id # h.id)]
  /\ UNCHANGED <<parallaxFactor, stickerPhase, deviceOrientation, run,
                 runsStarted, mouseListeners, orientationListeners,
                 permissionPending>>
  /\ UNCHANGED <<appVars, passVars, effectVars, serverVars>>

\* The window takes another size.
StickerResize ==
  /\ stickerPhase = "mounted"
  /\ \E v \in StickerViewports :
       /\ v # <<innerWidth, innerHeight>>
       /\ innerWidth' = v[1]
       /\ innerHeight' = v[2]
  /\ UNCHANGED <<isMobileView, stickers, generatedStickers>>
  /\ UNCHANGED <<parallaxFactor, motionX, motionY, stickerPhase, deviceOrientation, run,
                 runsStarted, mouseListeners, orientationListeners,
                 permissionPending, lastWrite>>
  /\ UNCHANGED <<passVars, effectVars, serverVars>>

\* The Sticker unmounts: the cleanup of the live run.
StickerUnmount ==
  /\ stickerPhase = "mounted"
  /\ stickerPhase' = "unmounted"
  /\ run' = None
  /\ mouseListeners' = MouseAfterCleanup
  /\ orientationListeners' = OrientationAfterCleanup
  /\ UNCHANGED <<parallaxFactor, motionX, motionY, deviceOrientation, runsStarted,
                 permissionPending, lastWrite>>
  /\ UNCHANGED <<appVars, passVars, effectVars, serverVars>>

StickerNext ==
  \/ StickerMount
  \/ SetParallaxFactor
  \/ PermissionResolves
  \/ MouseMoveEvent
  \/ OrientationEvent
  \/ StickerResize
  \/ StickerUnmount

StickerSpec == StickerInit /\ [][StickerNext]_vars

(***************************************************************************)
(* The referral server (src/server.js): the tables users and tokens, the   *)
(* clock, and the routes POST /generate, GET /verify and GET /r/:code.     *)
(* A token is 16 random bytes: every token issued is taken to be new.  A   *)
(* referral code is 3 random bytes: any code can be drawn, one that a      *)
(* user already has included.  Time is in minutes.                         *)
(***************************************************************************)
\* Date.now() + 15 * 60 * 1000
TOKEN_TTL_MIN == 15
\* POST /generate issues at most MaxTokens tokens.
MaxTokens == 2
\* Clicks are counted until a clicked_count is MaxClicks.
MaxClicks == 2
\* The clock advances at most MaxAdvances times.
MaxAdvances == 2

Emails == {"a@example.com", "b@example.com"}
\* crypto.randomBytes(3).toString('hex').toUpperCase()
Codes == {"0A1B2C", "FFEE00"}
\* The surveyLanguage of a request body, lower-cased.
LanguageInputs == {"english", "chinese", "german"}
\* The environment: which survey URLs are configured (FORM_URL_EN or
\* FORM_URL for english, FORM_URL_ZH, FORM_URL_CN or FORM_URL_CHINESE for
\* chinese).
Environments ==
  {[english |-> TRUE, chinese |-> FALSE], [english |-> FALSE, chinese |-> TRUE]}
\* The clock advances by the life of a token: a token is verified when it
\* is issued, at the very minute it expires, or later.
ClockSteps == {TOKEN_TTL_MIN}

\* normalizeSurveyLanguage: null is modelled as "".
NormalizeSurveyLanguage(value) ==
  IF value = "chinese" THEN "chinese"
  ELSE IF value = "english" THEN "english"
  ELSE ""

\* getSurveyUrls, then the URL of the requested language; "" when there is none.
RequestedUrl(language) ==
  IF language = "chinese"
  THEN (IF env.chinese THEN "FORM_URL_ZH" ELSE "")
  ELSE (IF env.english THEN "FORM_URL_EN" ELSE "")

\* A verification that never finds a token expired.
ExpiredNever(expires_at, at) == FALSE

\* new Date(row.expires_at) < new Date()
Expired(expires_at, at) == expires_at < at

\* UPDATE users SET clicked_count = COALESCE(clicked_count, 0) + 1 WHERE code = ?
Clicked(rows, code) ==
  {IF u.code = code THEN [u EXCEPT !.clicked_count = u.clicked_count + 1] ELSE u :
     u \in rows}

\* The status POST /generate answers with: 400 without an email or without a
\* recognised survey language, 503 when the language's URL is not configured.
GenerateStatus(email, surveyLanguage) ==
  IF email = "" THEN 400
  ELSE IF surveyLanguage = "" THEN 400
  ELSE IF RequestedUrl(surveyLanguage) = "" THEN 503
  ELSE 200

\* Mutant: the check of the configuration comes after the write.
ReturnsEarlyBadRequestOnly(status) == status = 400

\* return res.status(...): the handler returns before it reaches the DELETE.
ReturnsEarly(status) == status # 200

\* Mutant: the rows of the email are kept.
TokensAfterGenerateKeeping(rows, row) == rows \cup {row}

\* DELETE FROM tokens WHERE email = ?, then INSERT INTO tokens
TokensAfterGenerate(rows, row) == {r \in rows : r.email # row.email} \cup {row}

\* Mutant: a verification of an existing user starts the count again.
ReverifiedResetting(rows, email, surveyLanguage) ==
  {IF u.email = email
   THEN [u EXCEPT !.verified = 1, !.survey_language = surveyLanguage,
                  !.clicked_count = 0]
   ELSE u : u \in rows}

\* UPDATE users SET verified = 1, survey_language = ? WHERE email = ?
Reverified(rows, email, surveyLanguage) ==
  {IF u.email = email
   THEN [u EXCEPT !.verified = 1, !.survey_language = surveyLanguage]
   ELSE u : u \in rows}

\* The tables created empty (lines 17-31), the clock at 0.
ServerInit ==
  /\ env \in Environments
  /\ users = {}
  /\ tokens = {}
  /\ now = 0
  /\ issued = {}
  /\ lastRequest = [route |-> "none", arg |-> "", status |-> 0]
  /\ innerWidth = 0
  /\ innerHeight = 0
  /\ EffectAtRest
  /\ PassIdle
  /\ StickerIdle

\* History kept with a users row: the token of the request that inserted
\* it, and whether every token row issued with that token had expired by
\* the time of the request.
PastExpiry(token, at) == \A g \in issued : g.token = token => g.expires_at < at

Answer(route, arg, status) ==
  lastRequest' = [route |-> route, arg |-> arg, status |-> status]

\* POST /generate with the body {email, surveyLanguage}.
Generate ==
  \E email \in Emails \cup {""}, input \in LanguageInputs :
    LET surveyLanguage == NormalizeSurveyLanguage(input)
        token == Cardinality(issued) + 1
        row == [email |-> email, token |-> token,
                expires_at |-> now + TOKEN_TTL_MIN,
                survey_language |-> surveyLanguage]
        status == GenerateStatus(email, surveyLanguage)
    IN  /\ IF ReturnsEarly(status)
           THEN UNCHANGED <<tokens, issued>>
           ELSE /\ token <= MaxTokens
                /\ tokens' = TokensAfterGenerate(tokens, row)
                /\ issued' = issued \cup {row}
        /\ Answer("generate", "", status)
        /\ UNCHANGED <<env, users, now>>
        /\ UNCHANGED <<appVars, passVars, effectVars, parallaxVars>>

\* GET /verify?token=...; token 0 is a request without a token.
Verify ==
  \E token \in 0..MaxTokens :
    LET rows == {r \in tokens : r.token = token}
        row == CHOOSE r \in rows : TRUE
        stored == NormalizeSurveyLanguage(row.survey_language)
        surveyLanguage == IF stored = "" THEN "english" ELSE stored
        existingUser == {u \in users : u.email = row.email}
    IN  /\ IF token = 0
           THEN /\ Answer("verify", token, 400)
                /\ UNCHANGED users
           ELSE IF rows = {}
           THEN /\ Answer("verify", token, 400)
                /\ UNCHANGED users
           ELSE IF Expired(row.expires_at, now)
           THEN /\ Answer("verify", token, 400)
                /\ UNCHANGED users
           ELSE /\ IF existingUser = {}
                   THEN \E code \in Codes :
                          users' = users \cup
                            {[email |-> row.email, code |-> code, verified |-> 1,
                              clicked_count |-> 0,
                              survey_language |-> surveyLanguage,
                              by |-> [token |-> token,
                                      late |-> PastExpiry(token, now)]]}
                   ELSE users' = Reverified(users, row.email, surveyLanguage)
                /\ Answer("verify", token, 200)
        /\ UNCHANGED <<env, tokens, now, issued>>
        /\ UNCHANGED <<appVars, passVars, effectVars, parallaxVars>>

\* GET /r/:code
Click ==
  \E code \in Codes \cup {"123456"} :
    /\ IF ~(\E u \in users : u.code = code /\ u.verified = 1)
       THEN /\ Answer("click", code, 404)
            /\ UNCHANGED users
       ELSE /\ \A u \in users : u.clicked_count < MaxClicks
            /\ users' = Clicked(users, code)
            /\ Answer("click", code, 302)
    /\ UNCHANGED <<env, tokens, now, issued>>
    /\ UNCHANGED <<appVars, passVars, effectVars, parallaxVars>>

\* Time passes.
Advance ==
  /\ \E d \in ClockSteps :
       /\ now + d <= MaxAdvances * TOKEN_TTL_MIN
       /\ now' = now + d
  /\ UNCHANGED <<env, users, tokens, issued, lastRequest>>
  /\ UNCHANGED <<appVars, passVars, effectVars, parallaxVars>>

ServerNext ==
  \/ Generate
  \/ Verify
  \/ Click
  \/ Advance

ServerSpec == ServerInit /\ [][ServerNext]_vars

(***************************************************************************)
(* The rejection-sampling variant of generateLayout                        *)
(* (src/unnamed/part_000 81-195): every slot draws candidates anywhere on  *)
(* the page until one lies outside the safe zone and far enough from the   *)
(* stickers already placed, or until the attempts are used up.             *)
(* Math.sqrt(dx * dx + dy * dy) < minDistance is compared on the squares,  *)
(* which are exact here.                                                   *)
(***************************************************************************)
\* while (attempts < 100 && !position)
MAX_ATTEMPTS == 100
\* const minDistance = 18
minDistance == 18
\* const isMobileLayout = innerWidth <= 640
MOBILE_LAYOUT_MAX == 640
\* Math.max(15, Math.floor(20 * ratio))
MIN_TOTAL_STICKERS == 15

\* Viewports (width, height) in px: a phone, a laptop, a desktop.
SamplingViewports == { <<360, 640>>, <<1280, 720>>, <<1920, 1080>> }

\* mainRef.current?.getBoundingClientRect(): the rectangle of <main>, or
\* undefined while the ref is not attached.
SamplingDoms(W, H) ==
  { [safeRect |-> Rect(W \div 4, (3 * W) \div 4, H \div 4, (3 * H) \div 4),
     elements |-> << >>],
    [safeRect |-> None, elements |-> << >>] }

\* const totalStickers = Math.max(15, Math.floor(20 * ratio))
SamplingTotalStickers(W, H) == Max(MIN_TOTAL_STICKERS, (20 * W * H) \div baseArea)

\* let safeZone = null; if (!isMobileLayout) { ... }
SamplingSafeZone(safeRect, W, H) == SafeZone(W <= MOBILE_LAYOUT_MAX, safeRect, W, H)

\* Math.random() * 100 - 5
SampleCoordinate(s) == RSub(RMul(Random(s), RInt(100)), RInt(5))

RSquare(a) == RMul(a, a)

\* dx * dx + dy * dy, dx = existing.leftVal - x,
\* dy = (existing.topVal - y) * (innerHeight / innerWidth)
DistanceSquared(existing, x, y, W, H) ==
  LET dx == RSub(existing.leftVal, x)
      dy == RMul(RSub(existing.topVal, y), R(H, W))
  IN  RAdd(RSquare(dx), RSquare(dy))

\* if (dist < minDistance) { tooClose = true; break; }
TooClose(list, x, y, W, H) ==
  \E k \in 1..Len(list) :
    RLt(DistanceSquared(list[k], x, y, W, H), RInt(minDistance * minDistance))

\* Mutant: one more round once the attempts are used up.
SamplingWhileCondInclusive(n, pos) == n <= MAX_ATTEMPTS /\ pos = None

\* while (attempts < 100 && !position)
SamplingWhileCond(n, pos) == n < MAX_ATTEMPTS /\ pos = None

\* if (position) newStickers.push({ ...stickerData, ...position })
SampledAfterSlot(list, stickerData, pos) ==
  IF pos # None
  THEN Append(list, [image |-> stickerData.image, left |-> pos.left, top |-> pos.top,
                     leftVal |-> pos.leftVal, topVal |-> pos.topVal,
                     rotation |-> pos.rotation, scale |-> pos.scale])
  ELSE list

\* The effect runs generateLayout with a loaded catalog.
SamplingInit ==
  /\ \E v \in SamplingViewports :
       /\ innerWidth = v[1]
       /\ innerHeight = v[2]
       /\ dom \in SamplingDoms(v[1], v[2])
  /\ isMobileView = FALSE
  /\ stickers \in {Catalog(1), Catalog(MaxCatalog)}
  /\ rng \in 0..(RandDen - 1)
  /\ generatedStickers = << >>
  /\ pc = "mount"
  /\ totalStickers = 0
  /\ baseScale = RInt(0)
  /\ exclusionZones = << >>
  /\ safeZone = None
  /\ gridRows = 0
  /\ gridCols = 0
  /\ gridCells = << >>
  /\ cellIndex = 0
  /\ i = 0
  /\ attempts = 0
  /\ position = None
  /\ newStickers = << >>
  /\ cand = None
  /\ tested = << >>
  /\ placedCell = << >>
  /\ sampled = [tries |-> 0, total |-> 0, dropped |-> {}]
  /\ passed = {}
  /\ EffectIdle
  /\ StickerIdle
  /\ ServerIdle

\* What a step of the sampling pass leaves alone.
samplingFixed == <<innerWidth, innerHeight, isMobileView, dom, stickers,
                   exclusionZones, gridRows, gridCols, gridCells, cellIndex,
                   tested, placedCell, passed>>

\* generateLayout up to "const minDistance = 18": count, scale and safe zone.
SampleStart ==
  /\ pc = "mount"
  /\ Len(stickers) # 0
  /\ totalStickers' = SamplingTotalStickers(innerWidth, innerHeight)
  /\ baseScale' = BaseScale(innerWidth, innerHeight)
  /\ safeZone' = SamplingSafeZone(dom.safeRect, innerWidth, innerHeight)
  /\ newStickers' = << >>
  /\ i' = 0
  /\ attempts' = 0
  /\ position' = None
  /\ pc' = "loop"
  /\ UNCHANGED beyondLayout
  /\ UNCHANGED samplingFixed
  /\ UNCHANGED <<generatedStickers, rng, cand, sampled>>

\* One iteration of the while loop of slot i: draw a candidate and test it.
SampleAttempt ==
  /\ pc = "loop"
  /\ i < totalStickers
  /\ SamplingWhileCond(attempts, position)
  /\ LET s1 == rng
         s2 == NextRng(s1)
         s3 == NextRng(s2)
         s4 == NextRng(s3)
         x == SampleCoordinate(s1)
         y == SampleCoordinate(s2)
         inSafeZone == InSafeZone(x, y, safeZone)
         tooClose == TooClose(newStickers, x, y, innerWidth, innerHeight)
     IN  /\ cand' = [x |-> x, y |-> y, inSafeZone |-> inSafeZone,
                     tooClose |-> ~inSafeZone /\ tooClose]
         /\ IF inSafeZone \/ tooClose
            THEN /\ attempts' = attempts + 1
                 /\ rng' = NextRng(s2)
                 /\ UNCHANGED position
            ELSE /\ position' = [left |-> x, top |-> y, leftVal |-> x, topVal |-> y,
                                 rotation |-> Rotation(s3),
                                 scale |-> StickerScale(baseScale, s4)]
                 /\ rng' = NextRng(s4)
                 /\ UNCHANGED attempts
  /\ sampled' = [sampled EXCEPT !.tries = @ + 1, !.total = @ + 1]
  /\ UNCHANGED beyondLayout
  /\ UNCHANGED samplingFixed
  /\ UNCHANGED <<generatedStickers, pc, totalStickers, baseScale, safeZone, i,
                 newStickers>>

\* The while loop of slot i has ended: push the position, if any; next slot.
SampleSlotEnd ==
  /\ pc = "loop"
  /\ i < totalStickers
  /\ ~SamplingWhileCond(attempts, position)
  /\ newStickers' = SampledAfterSlot(newStickers, stickers[(i % Len(stickers)) + 1],
                                     position)
  /\ sampled' = [sampled EXCEPT !.tries = 0,
                                !.dropped = IF position = None THEN @ \cup {i} ELSE @]
  /\ i' = i + 1
  /\ attempts' = 0
  /\ position' = None
  /\ UNCHANGED beyondLayout
  /\ UNCHANGED samplingFixed
  /\ UNCHANGED <<generatedStickers, rng, pc, totalStickers, baseScale, safeZone,
                 cand>>

\* setGeneratedStickers(newStickers)
SampleStore ==
  /\ pc = "loop"
  /\ i = totalStickers
  /\ generatedStickers' = newStickers
  /\ pc' = "done"
  /\ UNCHANGED beyondLayout
  /\ UNCHANGED samplingFixed
  /\ UNCHANGED <<rng, totalStickers, baseScale, safeZone, i, attempts, position,
                 newStickers, cand, sampled>>

SamplingNext == SampleStart \/ SampleAttempt \/ SampleSlotEnd \/ SampleStore

SamplingSpec == SamplingInit /\ [][SamplingNext]_vars

(***************************************************************************)
(* Properties.                                                             *)
(***************************************************************************)
\* The bounding box of an emitted sticker, from what the renderer receives:
\* left/top is the top-left corner, the footprint is 300 * scale px.
StickerBox(s) ==
  [xMin |-> s.left,
   xMax |-> RAdd(s.left, StickerWidthPct(s.scale, innerWidth)),
   yMin |-> s.top,
   yMax |-> RAdd(s.top, StickerHeightPct(s.scale, innerHeight))]

\* The centre of an emitted sticker.
StickerCenter(s) ==
  [x |-> RAdd(s.left, Half(StickerWidthPct(s.scale, innerWidth))),
   y |-> RAdd(s.top, Half(StickerHeightPct(s.scale, innerHeight)))]

BoxOverlaps(b, z) ==
  /\ RLt(z.xMin, b.xMax) /\ RLt(b.xMin, z.xMax)
  /\ RLt(z.yMin, b.yMax) /\ RLt(b.yMin, z.yMax)

\* Every sticker emitted so far, and every sticker stored.
Emitted ==
  {newStickers[k] : k \in 1..Len(newStickers)}
    \cup {generatedStickers[k] : k \in 1..Len(generatedStickers)}

Zones == {exclusionZones[k] : k \in 1..Len(exclusionZones)}

\* C1: the bounding box of every emitted sticker (its stored corner and its
\* stored scale) overlaps no exclusion zone of the pass, and the scale stored
\* on an accepted position is the scale of the candidate that was tested.
C1_NoExclusionOverlap ==
  /\ \A s \in Emitted : \A z \in Zones : ~BoxOverlaps(StickerBox(s), z)
  /\ position # None =>
       /\ position.scale = cand.scale
       /\ \A z \in Zones : ~BoxOverlaps(StickerBox(position), z)

\* A candidate was rejected by the exclusion test alone while stickers were
\* already emitted.
C1_Witness ==
  /\ pc = "loop" /\ cand # None /\ newStickers # << >>
  /\ ~InSafeZone(cand.x, cand.y, safeZone)
  /\ \E z \in Zones :
       BoxOverlaps([xMin |-> RSub(cand.x, Half(StickerWidthPct(cand.scale, innerWidth))),
                    xMax |-> RAdd(cand.x, Half(StickerWidthPct(cand.scale, innerWidth))),
                    yMin |-> RSub(cand.y, Half(StickerHeightPct(cand.scale, innerHeight))),
                    yMax |-> RAdd(cand.y, Half(StickerHeightPct(cand.scale, innerHeight)))], z)

StrictlyInside(p, z) ==
  /\ RLt(z.xMin, p.x) /\ RLt(p.x, z.xMax)
  /\ RLt(z.yMin, p.y) /\ RLt(p.y, z.yMax)

\* C2: when the pass has a safe zone, no emitted sticker has its centre
\* strictly inside it.
C2_CenterOutsideSafeZone ==
  safeZone # None =>
    \A s \in Emitted : ~StrictlyInside(StickerCenter(s), safeZone)

\* With a safe zone, a candidate inside it was rejected and stickers were emitted.
C2_Witness ==
  /\ safeZone # None /\ cand # None /\ newStickers # << >>
  /\ StrictlyInside(cand, safeZone)

\* C3: every candidate point lies in the cell it was drawn for, at most half
\* a cell from the cell centre on each axis, hence within [0,100] on both
\* axes: the in-bounds test rejects no candidate, and an accepted centre is
\* within [0,100].
C3_CandidateInCell ==
  cand # None =>
    LET cw == CellWidth(gridCols)
        ch == CellHeight(gridRows)
    IN  /\ RLe(RMul(RInt(cand.cell.col), cw), cand.x)
        /\ RLe(cand.x, RMul(RInt(cand.cell.col + 1), cw))
        /\ RLe(RMul(RInt(cand.cell.row), ch), cand.y)
        /\ RLe(cand.y, RMul(RInt(cand.cell.row + 1), ch))
        /\ RLe(RInt(0), cand.x) /\ RLe(cand.x, RInt(100))
        /\ RLe(RInt(0), cand.y) /\ RLe(cand.y, RInt(100))

\* A candidate of a cell on the left edge, jittered towards the edge, accepted.
C3_Witness ==
  /\ position # None
  /\ cand.cell.col = 0
  /\ RLt(cand.x, CellCenter(0, CellWidth(gridCols)))

CyclicCatalog(list) ==
  \A k \in 1..Len(list) :
    list[k].image = stickers[((k - 1) % Len(stickers)) + 1].image

\* C4: the grid has at least totalStickers cells; without exclusion zones and
\* without a safe zone the pass stores exactly totalStickers placements, the
\* one at index k carrying catalog row k mod length; at 1920x1080 with three
\* rows that is 20 placements, those at 0,3,...,18 carrying row 0.
C4_AllPlacedCyclic ==
  /\ pc # "mount" => Len(gridCells) >= totalStickers
  /\ (pc = "done" /\ exclusionZones = << >> /\ safeZone = None) =>
       /\ Len(generatedStickers) = totalStickers
       /\ CyclicCatalog(generatedStickers)
       /\ (innerWidth = 1920 /\ innerHeight = 1080 /\ Len(stickers) = 3) =>
            /\ Len(generatedStickers) = 20
            /\ \A k \in {0, 3, 6, 9, 12, 15, 18} :
                 generatedStickers[k + 1].image = stickers[1].image

C4_Witness ==
  /\ pc = "done" /\ exclusionZones = << >> /\ safeZone = None
  /\ innerWidth = 1920 /\ innerHeight = 1080 /\ Len(stickers) = 3
  /\ Len(generatedStickers) = 20

FullViewport(z) ==
  /\ z # None
  /\ z.xMin = RInt(0) /\ z.xMax = RInt(100)
  /\ z.yMin = RInt(0) /\ z.yMax = RInt(100)

\* C5: with a safe zone covering the whole viewport nothing is ever accepted
\* and the list stored at the end is empty.
C5_FullSafeZoneEmpty ==
  FullViewport(safeZone) =>
    /\ position = None
    /\ newStickers = << >>
    /\ pc = "done" => generatedStickers = << >>

C5_Witness ==
  /\ pc = "done" /\ FullViewport(safeZone)
  /\ Len(tested) = Len(gridCells)
  /\ generatedStickers = << >>

\* The work left in the placement loop: slots to process, cells to test.
Variant ==
  2 * (totalStickers - i) + (Len(gridCells) - cellIndex)
    + (IF position = None THEN 1 ELSE 0)

\* C6: a pass ends, whatever is rejected: every step of the placement loop
\* decreases a non-negative measure, and until the list is stored a step
\* is possible (another iteration or slot while i < totalStickers, the
\* store when i = totalStickers); a slot whose loop ends without a position
\* adds nothing to the list; the list holds at most one entry per slot
\* processed, at most totalStickers in all; at the end the list is stored,
\* empty or not.
C6_PassEndsSlotsDropped ==
  /\ [](/\ 0 <= Len(newStickers) /\ Len(newStickers) <= i
        /\ i <= totalStickers
        /\ Variant >= 0
        /\ pc = "done" => (i = totalStickers /\ generatedStickers = newStickers))
  /\ [][(pc = "loop" /\ position = None /\ i' = i + 1) => newStickers' = newStickers]_vars
  /\ [][(pc = "loop" /\ pc' = "loop") => Variant' < Variant]_vars
  /\ [][(pc = "loop" /\ pc' = "done") => (i = totalStickers /\ generatedStickers' = newStickers)]_vars

\* A pass that ended with some slots placed and some dropped, the grid exhausted.
C6_Witness ==
  /\ pc = "done"
  /\ cellIndex >= Len(gridCells)
  /\ 0 < Len(generatedStickers) /\ Len(generatedStickers) < totalStickers

NoDuplicates(seq) ==
  \A a, b \in 1..Len(seq) : a # b => seq[a] # seq[b]

\* C7: the cell cursor never decreases, no cell index is tested twice, and
\* no two emitted stickers come from the same grid cell.
C7_CellsUsedOnce ==
  /\ [][cellIndex' >= cellIndex]_vars
  /\ [](NoDuplicates(tested) /\ NoDuplicates(placedCell))
  /\ [](\A k \in 1..Len(tested) : tested[k] < Len(gridCells))

\* A finished pass that accepted several cells and rejected others.
C7_Witness ==
  /\ pc = "done"
  /\ Len(placedCell) >= 2
  /\ Len(tested) > Len(placedCell)

\* Areas (px^2) to compare the viewport of the pass with.
ProbeAreas ==
  {w * h : w \in {320, 768, 1024, 1280, 1920, 2560}, h \in {480, 720, 1080, 1440}}

\* C8: the count computed by the pass is at least 10, is at most the count
\* of every larger area and at least the count of every smaller one, and
\* doubling the area does not decrease it.
C8_CountMonotone ==
  pc # "mount" =>
    LET area == innerWidth * innerHeight
    IN  /\ totalStickers >= 10
        /\ \A a \in ProbeAreas :
             /\ a <= area => TotalStickersOfArea(a) <= totalStickers
             /\ area <= a => totalStickers <= TotalStickersOfArea(a)
        /\ totalStickers <= TotalStickersOfArea(2 * area)

\* A pass above the floor whose count grows when the area doubles, next to a
\* smaller area that sits on the floor.
C8_Witness ==
  /\ pc # "mount"
  /\ totalStickers > 10
  /\ TotalStickersOfArea(2 * innerWidth * innerHeight) > totalStickers
  /\ \E a \in ProbeAreas : a < innerWidth * innerHeight /\ TotalStickersOfArea(a) = 10

\* The zone derived for the k-th measured element contains the element's
\* rectangle (in percent of the viewport) and is not inverted.
ZoneContainsElement(k) ==
  LET z == exclusionZones[k]
      r == dom.elements[k].rect
  IN  /\ RLe(z.xMin, Pct(r.left, innerWidth))
      /\ RLe(Pct(r.right, innerWidth), z.xMax)
      /\ RLe(z.yMin, Pct(r.top, innerHeight))
      /\ RLe(Pct(r.bottom, innerHeight), z.yMax)
      /\ RLe(z.xMin, z.xMax) /\ RLe(z.yMin, z.yMax)

\* C9 as stated: every derived zone is the measured rectangle expanded
\* outward, so it contains the rectangle and has xMin <= xMax, yMin <= yMax.
C9_ZoneContainsElement ==
  pc # "mount" => \A k \in 1..Len(exclusionZones) : ZoneContainsElement(k)

\* px of a percentage of a length
PxOf(pct, total) == RDiv(RMul(pct, RInt(total)), RInt(100))

\* C9 as amended: there is one zone per measured element, in order, and it
\* is the element's rectangle moved inward by 50 px on each of the four
\* sides (the buffer is -50 px); it is contained in the rectangle and it
\* has xMin <= xMax (yMin <= yMax) exactly when the element is at least
\* 100 px wide (high).
C9_ZoneIsElementInset ==
  pc # "mount" =>
    /\ Len(exclusionZones) = Len(dom.elements)
    /\ \A k \in 1..Len(exclusionZones) :
         LET z == exclusionZones[k]
             r == dom.elements[k].rect
         IN  /\ PxOf(z.xMin, innerWidth) = RInt(r.left + 50)
             /\ PxOf(z.xMax, innerWidth) = RInt(r.right - 50)
             /\ PxOf(z.yMin, innerHeight) = RInt(r.top + 50)
             /\ PxOf(z.yMax, innerHeight) = RInt(r.bottom - 50)
             /\ RLe(z.xMin, z.xMax) <=> r.right - r.left >= 100
             /\ RLe(z.yMin, z.yMax) <=> r.bottom - r.top >= 100

\* Zones of a pass: one of an element wider and higher than 100 px, one of a
\* smaller element, which is inverted on both axes.
C9_Witness ==
  /\ pc # "mount"
  /\ \E k \in 1..Len(exclusionZones) :
       RLt(exclusionZones[k].xMin, exclusionZones[k].xMax)
         /\ RLt(exclusionZones[k].yMin, exclusionZones[k].yMax)
  /\ \E k \in 1..Len(exclusionZones) :
       RLt(exclusionZones[k].xMax, exclusionZones[k].xMin)
         /\ RLt(exclusionZones[k].yMax, exclusionZones[k].yMin)

\* C10 as stated: left and top of every emitted sticker are within [0,100].
C10_CornerInViewport ==
  \A s \in Emitted :
    /\ RLe(RInt(0), s.left) /\ RLe(s.left, RInt(100))
    /\ RLe(RInt(0), s.top) /\ RLe(s.top, RInt(100))

\* C10 as amended: left and top of every emitted sticker are at most 100 less
\* half the sticker's percentage footprint and at least minus half that
\* footprint; they can be negative.
C10_CornerWithinHalfFootprint ==
  \A s \in Emitted :
    LET halfW == Half(StickerWidthPct(s.scale, innerWidth))
        halfH == Half(StickerHeightPct(s.scale, innerHeight))
    IN  /\ RLe(RSub(RInt(0), halfW), s.left) /\ RLe(s.left, RSub(RInt(100), halfW))
        /\ RLe(RSub(RInt(0), halfH), s.top) /\ RLe(s.top, RSub(RInt(100), halfH))

\* A stored sticker whose left is negative and one whose top is negative.
C10_Witness ==
  /\ pc = "done"
  /\ \E k \in 1..Len(generatedStickers) : RLt(generatedStickers[k].left, RInt(0))
  /\ \E k \in 1..Len(generatedStickers) : RLt(generatedStickers[k].top, RInt(0))

\* baseScale is 1.2 * area / (1920 * 1080) clamped to [0.5, 1.5], stated on
\* the integers of the viewport.
BaseScaleIsClamp ==
  LET area == innerWidth * innerHeight
  IN  IF 12 * area <= 5 * baseArea THEN baseScale = R(1, 2)
      ELSE IF 12 * area >= 15 * baseArea THEN baseScale = R(3, 2)
      ELSE baseScale = R(6 * area, 5 * baseArea)

\* C17 as stated: once the pass has computed it, baseScale is
\* clamp(1.2 * area / (1920*1080), 0.5, 1.5), and the scale of every emitted
\* sticker lies in [0.8 * baseScale, 1.2 * baseScale].
C17_ScaleWithin20Percent ==
  pc # "mount" =>
    /\ BaseScaleIsClamp
    /\ \A s \in Emitted :
         /\ RLe(RMul(R(4, 5), baseScale), s.scale)
         /\ RLe(s.scale, RMul(R(6, 5), baseScale))

\* C17 as amended: baseScale is that clamp, and the scale of every emitted
\* sticker lies in [0.9 * baseScale, 1.3 * baseScale), the upper end excluded.
C17_ScaleBetween90And130Percent ==
  pc # "mount" =>
    /\ BaseScaleIsClamp
    /\ \A s \in Emitted :
         /\ RLe(RMul(R(9, 10), baseScale), s.scale)
         /\ RLt(s.scale, RMul(R(13, 10), baseScale))

\* A stored layout of an unclamped baseScale with a sticker above
\* 1.2 * baseScale and a sticker of exactly 0.9 * baseScale.
C17_Witness ==
  /\ pc = "done"
  /\ RLt(R(1, 2), baseScale) /\ RLt(baseScale, R(3, 2))
  /\ \E k \in 1..Len(generatedStickers) :
       RLt(RMul(R(6, 5), baseScale), generatedStickers[k].scale)
  /\ \E k \in 1..Len(generatedStickers) :
       generatedStickers[k].scale = RMul(R(9, 10), baseScale)

(***************************************************************************)
(* Properties of the layout effect's life.                                 *)
(***************************************************************************)
\* Every stored placement was made by the last pass, from the window as it is.
StoredIsLastPass ==
  \A k \in 1..Len(generatedStickers) :
    /\ generatedStickers[k].pass = lastPass.n
    /\ generatedStickers[k].width = innerWidth
    /\ generatedStickers[k].height = innerHeight

\* C11 as stated: every layout pass after the initial one runs when at least
\* 200 ms have passed since the most recent width-changing resize event.
C11_LaterPassesDebounced ==
  lastPass.n >= 2 => lastPass.since >= DEBOUNCE_MS

\* C11 as amended: a pass run by the debounce timer runs when at least 200 ms
\* have passed since the most recent width-changing resize event; a pass
\* after the initial one that the timer did not run was run by a re-run of
\* the effect whose render saw isMobileView change; and no resize event runs
\* a pass in its own handlers.
C11_TimerPassesDebounced ==
  /\ [](lastPass.by = "timer" => lastPass.since >= DEBOUNCE_MS)
  /\ [](lastPass.n >= 2 /\ lastPass.by = "effect" =>
          /\ lastPass.before.loaded
          /\ lastPass.before.isMobileView # lastPass.isMobileView)
  /\ [][lastEvent' # lastEvent => lastPass' = lastPass]_vars

\* A pass after the initial one that the effect ran at once, after a resize
\* event less than 200 ms earlier moved the width across the breakpoint; the
\* timer has run a pass before.
C11_Witness ==
  /\ lastPass.n >= 3
  /\ lastPass.by = "effect"
  /\ lastPass.since < DEBOUNCE_MS
  /\ lastPass.event >= 2

\* C12: a resize event that leaves the width as it was last observed (at the
\* previous event and by the effect's lastWidth) changes no timer, runs no
\* pass, causes no render and leaves the stored placements as they are.
C12_HeightOnlyResizeIgnored ==
  [][(lastEvent' # lastEvent
        /\ innerWidth = lastEvent.width
        /\ (effect # None => innerWidth = effect.lastWidth))
     => /\ timers' = timers
        /\ lastPass' = lastPass
        /\ generatedStickers' = generatedStickers
        /\ effect' = effect
        /\ isMobileView' = isMobileView]_vars

\* A height-only resize event has been dispatched while a timeout was
\* pending and a layout was stored, and the timeout is still pending.
C12_Witness ==
  /\ lastEvent.n >= 2
  /\ lastEvent.heightOnly
  /\ lastEvent.pending
  /\ timers # {}
  /\ effect # None
  /\ Len(generatedStickers) > 0

\* C13 as stated: every pending timeout was started by the latest resize
\* event (any resize event cancels the re-layout that was pending).
C13_OnlyLatestResizeTimer ==
  \A t \in timers : t.id = lastEvent.n

\* C13 as amended: a width-changing resize event cancels the pending
\* timeout and starts the only one pending, due 200 ms after it; a resize
\* event of unchanged width leaves the pending timeout and its due time as
\* they are; a pending timeout belongs to the live effect run.
C13_OnlyLatestWidthChangeTimer ==
  /\ [](Cardinality(timers) <= 1)
  /\ [](\A t \in timers :
          /\ effect # None
          /\ t.owner = effect.id
          /\ t.id = effect.timeoutId
          /\ t.left + sinceResize = DEBOUNCE_MS)
  /\ [][lastEvent' # lastEvent =>
          IF effect # None /\ innerWidth # observedWidth
          THEN \A t \in timers' : t.id = lastEvent'.n /\ t.left = DEBOUNCE_MS
          ELSE timers' = timers]_vars

\* A width-changing resize event arrived while a timeout was pending: that
\* timeout is gone and the one pending was started by the event.
C13_Witness ==
  /\ lastEvent.n >= 2
  /\ lastEvent.pending
  /\ lastEvent.widthChanged
  /\ \E t \in timers : t.id = lastEvent.n /\ t.left = DEBOUNCE_MS

\* A pass has run since resize event n, the window has not changed since,
\* and what is stored is all of that pass and of the window as it is.
FreshLayoutSince(n) ==
  /\ lastPass.n >= 1
  /\ lastPass.event = n
  /\ ~resizePending
  /\ lastPass.width = innerWidth
  /\ lastPass.height = innerHeight
  /\ StoredIsLastPass

\* C14: with a non-empty catalog, after a width-changing resize event either
\* another resize event follows (or App unmounts), or a layout pass runs and
\* what is stored is the list of that pass alone, computed from the final
\* width and height; and at all times every stored placement is of the last
\* pass (a pass keeps nothing of the pass before).
C14_WidthChangeLeadsToFreshLayout ==
  /\ \A n \in 1..MaxResizes :
       (mounted /\ Len(stickers) > 0 /\ lastEvent.n = n /\ lastEvent.widthChanged)
         ~> (~mounted \/ lastEvent.n > n \/ FreshLayoutSince(n))
  /\ [](\A k \in 1..Len(generatedStickers) : generatedStickers[k].pass = lastPass.n)

\* The timer has run a pass 200 ms after a width-changing resize event, a
\* layout was stored before, and what is stored is of the timer's pass alone.
C14_Witness ==
  /\ lastPass.by = "timer"
  /\ lastPass.n >= 2
  /\ lastPass.event >= 1
  /\ lastEvent.widthChanged
  /\ Len(generatedStickers) > 0
  /\ FreshLayoutSince(lastEvent.n)

\* C15: while the catalog is empty (the fetch has not resolved, or it gave
\* no valid row) nothing is stored, no pass has run, no effect run is live
\* (no resize listener of the layout effect) and no timeout is pending.
C15_EmptyCatalogNoWork ==
  Len(stickers) = 0 =>
    /\ generatedStickers = << >>
    /\ lastPass.n = 0
    /\ effect = None
    /\ effects = 0
    /\ timers = {}

\* The catalog has loaded with no valid row, the page has rendered it, and
\* a width-changing resize event has been dispatched and time has passed.
C15_Witness ==
  /\ loaded
  /\ Len(stickers) = 0
  /\ rendered = Deps
  /\ lastEvent.n >= 1
  /\ lastEvent.widthChanged
  /\ sinceResize = DEBOUNCE_MS

(***************************************************************************)
(* Properties of the Sticker's parallax effect.                            *)
(***************************************************************************)
RAbs(a) == [n |-> Abs(a.n), d |-> a.d]

\* The last write of x and y was by an orientation handler, and it is within
\* half the window (as the handler read it) divided by the handler's factor,
\* a non-finite reading giving 0 on its axis.
OrientationWriteBounded ==
  lastWrite.by = "orientation" =>
    /\ lastWrite.factor > 0
    /\ RLe(RAbs(motionX), R(lastWrite.width, 2 * lastWrite.factor))
    /\ RLe(RAbs(motionY), R(lastWrite.height, 2 * lastWrite.factor))
    /\ (~lastWrite.gamma.finite => motionX = RInt(0))
    /\ (~lastWrite.beta.finite => motionY = RInt(0))

\* C16 as stated: while the mounted Sticker's parallaxFactor is zero,
\* negative or missing, the offset is (0,0) and no listener is attached; and
\* an orientation-driven offset is bounded by half the viewport size divided
\* by the factor on each axis, a non-finite tilt reading counting as 0.
C16_NoMotionUnlessPositive ==
  /\ (stickerPhase = "mounted" /\ parallaxFactor.kind \in {"undefined", "null"})
       => /\ motionX = RInt(0) /\ motionY = RInt(0)
          /\ mouseListeners = {} /\ orientationListeners = << >>
  /\ (stickerPhase = "mounted" /\ parallaxFactor.kind = "number"
        /\ parallaxFactor.value <= 0)
       => /\ motionX = RInt(0) /\ motionY = RInt(0)
          /\ mouseListeners = {} /\ orientationListeners = << >>
  /\ OrientationWriteBounded

\* C16 as amended: while the mounted Sticker's parallaxFactor is zero,
\* negative or null, the effect has no live run and no mousemove listener,
\* the offset is the (0,0) the effect set unless an orientation listener
\* that an earlier run attached after its cleanup (its permission request
\* settled late) has moved it since; a missing parallaxFactor is 1000 and
\* has its listeners; every orientation-driven offset is bounded by half the
\* window divided by the factor of the run that attached the handler, a
\* non-finite reading giving 0.
C16_NoMotionUnlessPositiveOrDefaulted ==
  /\ (stickerPhase = "mounted" /\ IdentityFactor(Defaulted(parallaxFactor)))
       => /\ parallaxFactor.kind # "undefined"
          /\ run = None
          /\ mouseListeners = {}
          /\ lastWrite.by \in {"effect", "orientation"}
          /\ (lastWrite.by = "effect" => motionX = RInt(0) /\ motionY = RInt(0))
          /\ (lastWrite.by = "orientation" =>
                lastWrite.stale /\ deviceOrientation = "request")
          /\ (orientationListeners # << >> => deviceOrientation = "request")
  /\ (stickerPhase = "mounted" /\ parallaxFactor.kind = "undefined")
       => /\ run # None
          /\ run.factor = DEFAULT_PARALLAX_FACTOR
          /\ mouseListeners = {[id |-> run.id, factor |-> DEFAULT_PARALLAX_FACTOR]}
  /\ OrientationWriteBounded

\* A Sticker without a parallaxFactor that an orientation event with a
\* non-finite beta has moved off (0,0), and that the effect had reset before.
C16_Witness ==
  /\ stickerPhase = "mounted"
  /\ parallaxFactor.kind = "undefined"
  /\ runsStarted >= 2
  /\ lastWrite.by = "orientation"
  /\ ~lastWrite.beta.finite
  /\ motionX # RInt(0)
  /\ motionY = RInt(0)

(***************************************************************************)
(* Properties of the referral server.                                      *)
(***************************************************************************)
\* C18: every users row has verified = 1 and was inserted by a GET /verify
\* whose token POST /generate had issued for the row's email and which had
\* not passed its expiry at the time of the request.
C18_CodeOnlyAfterVerification ==
  \A u \in users :
    /\ u.verified = 1
    /\ ~u.by.late
    /\ \E g \in issued : g.token = u.by.token /\ g.email = u.email

\* A user has just been created by a GET /verify made at the very minute the
\* token expires, TOKEN_TTL_MIN after it was issued.
C18_Witness ==
  /\ lastRequest.route = "verify"
  /\ lastRequest.status = 200
  /\ \E u \in users :
       /\ u.by.token = lastRequest.arg
       /\ u.clicked_count = 0
       /\ \E g \in issued :
            /\ g.token = u.by.token
            /\ g.expires_at = now
            /\ now >= TOKEN_TTL_MIN

\* C19 as stated: a GET /r/:code whose code belongs to a verified user is
\* answered with the redirect and adds exactly 1 to the clicked_count of one
\* user of that code, every other users row staying as it is; a code of no
\* verified user is answered 404 and changes nothing; and no step lowers a
\* clicked_count.
C19_ClickCountsOneUser ==
  [][/\ (lastRequest'.route = "click"
           /\ <<users, lastRequest>>' # <<users, lastRequest>>)
        => LET code == lastRequest'.arg
               owners == {u \in users : u.code = code /\ u.verified = 1}
           IN  IF owners # {}
               THEN /\ lastRequest'.status = 302
                    /\ \E u \in owners :
                         users' = (users \ {u}) \cup
                           {[u EXCEPT !.clicked_count = u.clicked_count + 1]}
               ELSE /\ lastRequest'.status = 404
                    /\ users' = users
     /\ \A u \in users : \A v \in users' :
          v.email = u.email => v.clicked_count >= u.clicked_count]_vars

\* Two users have the same code, and one GET /r/:code has counted for both.
C19_Witness ==
  /\ lastRequest.route = "click"
  /\ lastRequest.status = 302
  /\ \E u \in users, v \in users :
       /\ u.email # v.email
       /\ u.code = lastRequest.arg /\ v.code = lastRequest.arg
       /\ u.clicked_count = 1 /\ v.clicked_count = 1

\* The progress of the placement loop: slots done, then rounds of this slot.
SamplingProgress == i * (MAX_ATTEMPTS + 1) + sampled.tries

\* The candidate (x, y) is outside the safe zone (its edge included) and at
\* least minDistance, in aspect-corrected percent units, from each of list.
Acceptable(list, x, y) ==
  /\ ~InSafeZone(x, y, safeZone)
  /\ \A k \in 1..Len(list) :
       RLe(RInt(minDistance * minDistance),
           DistanceSquared(list[k], x, y, innerWidth, innerHeight))

\* Every sticker of list is acceptable against the ones before it.
AllAcceptable(list) ==
  \A k \in 1..Len(list) :
    Acceptable(SubSeq(list, 1, k - 1), list[k].leftVal, list[k].topVal)

\* The bounds of a sampling pass, the test the accepted candidate has passed,
\* and the same test on the whole list the pass stores.
SamplingBounded ==
  pc # "mount" =>
    /\ attempts <= MAX_ATTEMPTS
    /\ sampled.tries <= MAX_ATTEMPTS
    /\ sampled.total <= MAX_ATTEMPTS * totalStickers
    /\ SamplingProgress <= totalStickers * (MAX_ATTEMPTS + 1)
    /\ Len(newStickers) + Cardinality(sampled.dropped) = i
    /\ position # None => Acceptable(newStickers, position.leftVal, position.topVal)
    /\ pc = "done" => generatedStickers = newStickers /\ AllAcceptable(generatedStickers)

\* The list changes by the push of the accepted position only.
PushesAccepted ==
  newStickers' # newStickers =>
    /\ position # None
    /\ newStickers' = SampledAfterSlot(newStickers, stickers[(i % Len(stickers)) + 1],
                                       position)
    /\ Len(newStickers') = Len(newStickers) + 1

\* A slot that ends without a position has failed MAX_ATTEMPTS times and
\* leaves the list as it was.
DroppedWithoutFallback ==
  (pc = "loop" /\ i' = i + 1 /\ position = None) =>
    /\ attempts = MAX_ATTEMPTS
    /\ sampled.tries = MAX_ATTEMPTS
    /\ newStickers' = newStickers

\* After any slot, dropped or placed, the next slot starts its own attempts.
NextSlotAttempted ==
  (pc = "loop" /\ i' = i + 1 /\ i' < totalStickers) =>
    /\ pc' = "loop"
    /\ SamplingWhileCond(attempts', position')

\* Every step of the loop is a further round of the slot or the next slot.
LoopAdvances ==
  (pc = "loop" /\ pc' = "loop") =>
    /\ SamplingProgress' > SamplingProgress
    /\ sampled.total' >= sampled.total
    /\ i' >= i

\* C20: in the rejection-sampling variant a slot runs the inner loop at most
\* 100 times and is dropped, with nothing pushed in its place, when 100
\* candidates have failed; the pass makes at most 100 * totalStickers attempts
\* and every step of its loop advances a bounded measure, so it terminates; a
\* candidate is accepted only when it is outside the safe zone and at least 18
\* aspect-corrected percent units from every sticker accepted before it; and
\* the slots after a dropped one are still attempted.
C20_RejectionSamplingBounded ==
  /\ []SamplingBounded
  /\ [][PushesAccepted /\ DroppedWithoutFallback /\ NextSlotAttempted /\ LoopAdvances]_vars

\* A pass on a desktop has ended with several stickers placed, a slot dropped
\* before the last one, and later slots attempted after it.
C20_Witness ==
  /\ pc = "done"
  /\ safeZone # None
  /\ Len(generatedStickers) >= 2
  /\ sampled.total > MAX_ATTEMPTS
  /\ \E d \in sampled.dropped, e \in sampled.dropped : d < e
  /\ cand.tooClose

\* The catalog entry of slot number j (from 0): stickers[j % stickers.length].
EntryOfSlot(j) == stickers[(j % Len(stickers)) + 1]

Min(a, b) == IF a < b THEN a ELSE b

\* A slot has been dropped: fewer stickers emitted than slots processed.
SlotDropped == pc # "mount" /\ Len(newStickers) < i

\* C21: in the grid-jitter pass the emitted list is a prefix of the slot
\* sequence.  A slot is dropped only with the grid exhausted, and from then on
\* the cursor stays at the end of the grid, no cell is tested and nothing is
\* emitted, so every later slot is dropped too; the j-th emitted sticker (from
\* 0) carries catalog entry j mod catalog length; every cell that passed its
\* test was tested, and the number of stickers stored is the lesser of
\* totalStickers and the number of cells that passed.
C21_EmittedIsPrefixOfSlots ==
  /\ [](\A j \in 1..Len(newStickers) :
          newStickers[j].image = EntryOfSlot(j - 1).image)
  /\ [](SlotDropped =>
          /\ cellIndex = Len(gridCells)
          /\ position = None
          /\ ~WhileCond)
  /\ [][SlotDropped =>
          /\ newStickers' = newStickers
          /\ tested' = tested
          /\ cellIndex' = cellIndex
          /\ SlotDropped']_vars
  /\ [][(pc = "loop" /\ i' = i + 1 /\ position = None) =>
          cellIndex = Len(gridCells)]_vars
  /\ [](/\ passed \subseteq {tested[k] : k \in 1..Len(tested)}
        /\ Cardinality(passed) <= totalStickers
        /\ pc = "done" =>
             Len(generatedStickers) = Min(totalStickers, Cardinality(passed)))

\* A pass over a catalog of several rows has ended with the grid exhausted:
\* more stickers emitted than the catalog has rows, two or more slots dropped,
\* and cells rejected among those tested.
C21_Witness ==
  /\ pc = "done"
  /\ Len(stickers) >= 2
  /\ Len(generatedStickers) > Len(stickers)
  /\ Len(generatedStickers) + 2 <= totalStickers
  /\ Cardinality(passed) < Len(tested)

\* The effect run whose cleanup has not run yet, as a set of ids.
LiveEffect == IF effect = None THEN {} ELSE {effect.id}

\* A step in which a timeout's callback runs a layout pass.
TimerPass == lastPass'.n = lastPass.n + 1 /\ lastPass'.by = "timer"

\* C22: with either source of the layout effect, at most one debounce timeout
\* is pending at any time; every pending timeout and every attached resize
\* listener belongs to the effect run that has not been cleaned up, so once a
\* run is cleaned up (the catalog arrived, the mobile breakpoint was crossed
\* in App.jsx, or the page unmounted) none of its timeouts is pending and its
\* listener is gone; and a layout pass run by a timeout is the callback of a
\* timeout of the live run.
C22_NoStaleTimerOrListener ==
  /\ [](/\ Cardinality(timers) <= 1
        /\ \A t \in timers : t.owner \in LiveEffect /\ t.id = effect.timeoutId
        /\ resizeListeners = LiveEffect
        /\ ~mounted => (timers = {} /\ resizeListeners = {}))
  /\ [][LiveEffect' # LiveEffect =>
          /\ \A t \in timers' : t.owner \notin LiveEffect
          /\ resizeListeners' \cap LiveEffect = {}]_vars
  /\ [][TimerPass =>
          \E t \in timers :
            /\ t.left = 0
            /\ t.owner \in LiveEffect
            /\ timers' = timers \ {t}]_vars

\* The last resize event started a timeout of the first run of the effect;
\* the breakpoint was crossed, the render has cleaned that run up before the
\* timeout was due, and the second run is live with nothing pending.
C22_Witness ==
  /\ mounted
  /\ effects >= 2
  /\ effect # None /\ effect.id = effects
  /\ lastEvent.scheduled
  /\ sinceResize = 0
  /\ lastPass.by = "effect" /\ lastPass.event = lastEvent.n
  /\ timers = {}

\* The run of the parallax effect whose cleanup has not run yet, as a set of ids.
LiveRun == IF run = None THEN {} ELSE {run.id}

\* Every attached mousemove listener is the live run's.
MouseListenersLive == \A h \in mouseListeners : h.id \in LiveRun

\* C23 as stated: every mousemove and deviceorientation listener attached to
\* window was registered by the run of the parallax effect that has not been
\* cleaned up: once a run is cleaned up (unmount, or another parallaxFactor)
\* none of its listeners remains, whenever requestPermission() settles.
C23_NoListenerAfterCleanup ==
  /\ MouseListenersLive
  /\ \A k \in 1..Len(orientationListeners) : orientationListeners[k].id \in LiveRun

\* The Sticker has unmounted while requestPermission() was pending, the
\* permission was then granted, and the listener of the run that was cleaned
\* up is attached; a deviceorientation event has set the motion values.
C23_Witness ==
  /\ stickerPhase = "unmounted"
  /\ run = None
  /\ permissionPending = {}
  /\ mouseListeners = {}
  /\ Len(orientationListeners) = 1
  /\ lastWrite.by = "orientation" /\ lastWrite.stale

\* The token rows issued for the email of g after g was.
NewerThan(g) == {h \in issued : h.email = g.email /\ h.token > g.token}

\* C24: the table tokens holds at most one row per email, the row of the
\* email's latest POST /generate; a GET /verify that succeeds was made with
\* the latest token issued for its email, and a GET /verify with a token that
\* a later POST /generate for the same email has replaced is answered 400.
C24_OnlyLatestTokenVerifies ==
  /\ \A r \in tokens, q \in tokens : r.email = q.email => r = q
  /\ \A r \in tokens : r \in issued /\ NewerThan(r) = {}
  /\ \A g \in issued : NewerThan(g) = {} => g \in tokens
  /\ (lastRequest.route = "verify" /\ lastRequest.status = 200) =>
       \E r \in tokens : r.token = lastRequest.arg /\ NewerThan(r) = {}
  /\ lastRequest.route = "verify" =>
       \A g \in issued :
         (g.token = lastRequest.arg /\ NewerThan(g) # {}) => lastRequest.status = 400

\* A second token has been issued for an email, and a GET /verify with the
\* first one, not yet expired, has been answered 400.
C24_Witness ==
  /\ lastRequest.route = "verify"
  /\ lastRequest.status = 400
  /\ \E g \in issued :
       /\ g.token = lastRequest.arg
       /\ NewerThan(g) # {}
       /\ ~Expired(g.expires_at, now)
       /\ \E r \in tokens : r.email = g.email

\* The users row u is still there with its email, code and inserting request.
KeepsCode(u) ==
  \E v \in users' : v.email = u.email /\ v.code = u.code /\ v.by = u.by

\* C25: a users row, once inserted, keeps its code for ever and there is one
\* row per email; a GET /verify, with whatever token and however often, leaves
\* the code and the clicked_count of every existing row as they were and adds
\* no row for an email that has one.
C25_VerifyKeepsReferralData ==
  /\ [](\A u \in users, v \in users : u.email = v.email => u = v)
  /\ [][\A u \in users : KeepsCode(u)]_vars
  /\ [][lastRequest'.route = "verify" =>
          /\ \A u \in users :
               \E v \in users' :
                 /\ v.email = u.email
                 /\ v.code = u.code
                 /\ v.clicked_count = u.clicked_count
          /\ \A v \in users' \ users :
               \A u \in users : (u.email = v.email) => (users' \ {v} = users \ {u})]_vars

\* A user whose row was inserted with one token and whose link has been
\* clicked has verified again with a later token for the same email.
C25_Witness ==
  /\ lastRequest.route = "verify"
  /\ lastRequest.status = 200
  /\ \E u \in users, r \in tokens :
       /\ r.token = lastRequest.arg
       /\ r.email = u.email
       /\ u.by.token < r.token
       /\ u.clicked_count >= 1

\* C26 as stated: no two users rows have the same referral code.
C26_CodesDistinct ==
  \A u \in users, v \in users : u.email # v.email => u.code # v.code

\* Two verified users share a code: the second GET /verify drew the three
\* bytes the first had drawn.
C26_Witness ==
  /\ lastRequest.route = "verify"
  /\ lastRequest.status = 200
  /\ \E u \in users, v \in users :
       /\ u.email # v.email
       /\ u.code = v.code
       /\ u.verified = 1 /\ v.verified = 1
       /\ v.by.token = lastRequest.arg

\* The statuses of a request that is turned down.
RejectionStatuses == {400, 404, 503}

\* C27: a request answered 400 or 503 (POST /generate without an email, with
\* an unrecognised survey language or with an unconfigured survey URL; GET
\* /verify without a token, with an unknown one or with an expired one), or
\* 404, writes nothing: any step that changes the table users or the table
\* tokens is a request that was accepted; in particular the token row of an
\* email is still there after a rejected POST /generate.
C27_RejectedRequestsWriteNothing ==
  /\ [][lastRequest'.status \in RejectionStatuses =>
          (users' = users /\ tokens' = tokens /\ issued' = issued)]_vars
  /\ [][(users' # users \/ tokens' # tokens) =>
          lastRequest'.status \notin RejectionStatuses]_vars

\* A POST /generate has just been answered 503 while every email has a token
\* row, one of them expired: the rows are all still there.
C27_Witness ==
  /\ lastRequest.route = "generate"
  /\ lastRequest.status = 503
  /\ \A e \in Emails : \E r \in tokens : r.email = e
  /\ \E r \in tokens : Expired(r.expires_at, now)

====
